---- MODULE Spec2Model ----
(***************************************************************************)
(* LivingMemories: the photo / version / job ledger of src/src/server.js   *)
(* and src/src/database.js.  The relational tables are sequences of rows   *)
(* (a row's id is its index), every request handler is a process whose     *)
(* position is the await it is suspended at, and every external call       *)
(* (database, blob store, model) either takes effect or throws.            *)
(***************************************************************************)
EXTENDS Integers, Sequences, FiniteSets, TLC

VARIABLES
    blobs,              \* blob store: sequence of the objects written
    storage_objects,    \* table storage_objects
    photos,             \* table photos
    photo_versions,     \* table photo_versions
    enhancement_jobs,   \* table enhancement_jobs
    tags,               \* table tags
    photo_tags,         \* table photo_tags (set of <<photo_id, tag_id>>)
    comments,           \* table comments
    folders,            \* table folders
    folderTree,         \* the library page's flat folder list and its tree
    reqs,               \* handler activations of the multi-await endpoints
    last,               \* response of the last single-query endpoint
    session,            \* the last request through authMiddleware
    signedUrls,         \* the signed URLs issued and not yet expired
    render,             \* the library page's rendering of the folder tree
    uploadPage          \* the upload page's state and its requests in flight

vars == <<blobs, storage_objects, photos, photo_versions, enhancement_jobs,
          tags, photo_tags, comments, folders, folderTree, reqs, last,
          session, signedUrls, render, uploadPage>>

\* the state that the route handlers do not write
edgeVars == <<session, signedUrls, render, uploadPage>>

tables == <<blobs, storage_objects, photos, photo_versions, enhancement_jobs,
            tags, photo_tags, comments>>

----------------------------------------------------------------------------
(* Bounds *)

NumUsers == 2
MaxRequests == 3          \* requests of any run
MaxInFlight == 2
MaxLedgerRequests == 2    \* requests of a run of Spec
MaxRaceUploads == 1       \* uploads of a run of SpecRace
MaxUploads == 2
MaxSaves == 1
MaxSaveRequests == 2      \* requests of a run of SpecSave
MaxLibraryRequests == 1   \* uploads of a run of SpecLibrary
MaxTagRequests == 1       \* uploads of a run of SpecTags
MaxTags == 1
MaxComments == 1
MaxFolders == 2
MaxListingUploads == 2    \* uploads of a run of SpecListing
MaxListingInFlight == 1   \* of them in flight at a time
MaxListingFolders == 1    \* folders of a run of SpecListing
MaxTouchedPhotos == 1     \* photos patched or deleted in a run of SpecListing
NumContents == 2          \* distinct file contents of a run of SpecStorage
MaxAuthUploads == 1       \* uploads of a run of SpecAuth
MaxAuthFolders == 1       \* folders of a run of SpecAuth
MaxValidRequests == 1     \* handlers that a run of SpecValidation starts
NumUrlTokens == 2         \* distinct tokens of signed URLs
MaxUrlUploads == 2        \* uploads of a run of SpecSignedUrls
MaxJobRequests == 3       \* requests of a run of SpecJobs
MaxJobInFlight == 1       \* of them in flight at a time
MaxDeleteRequests == 2    \* requests of a run of SpecDelete
MaxRenderFolders == 2     \* folders of a run of SpecRender
NumPageFiles == 2         \* files that the upload page accepts
MaxPageFetches == 3       \* requests that the upload page sends

Users == 1..NumUsers
FileContents == 1..NumContents

NULL == 0
Stamp == 1          \* new Date().toISOString(): some non-null timestamp

----------------------------------------------------------------------------
(* src/src/database.js *)

Ids(table) == DOMAIN table

\* the content of an uploaded file, where the request does not vary it
SomeBytes == 1

\* crypto.createHash('sha256').update(buffer).digest('hex'): equal exactly
\* for equal buffers
calculateChecksum(buffer) == <<"sha256", buffer>>

\* uploadToStorage whose file name is derived from the content
uploadToStorage_ContentAddressed(userId, fileBuffer, isOriginal) ==
    [bucket |-> "photos",
     objectKey |-> <<userId, IF isOriginal THEN "originals" ELSE "enhanced",
                     fileBuffer>>]

\* uploadToStorage: the key under which the blob is written; the random UUID
\* is a name no earlier upload used.
uploadToStorage(userId, fileBuffer, isOriginal) ==
    [bucket |-> "photos",
     objectKey |-> <<userId, IF isOriginal THEN "originals" ELSE "enhanced",
                     Len(blobs) + 1>>]

\* supabase.storage.from('photos').upload(objectKey, fileBuffer)
upload(objectKey, fileBuffer) ==
    Append(blobs, [key |-> objectKey, bytes |-> fileBuffer])

\* the tokens of the signed URLs
UrlTokens == 1..NumUrlTokens

\* getSignedUrl whose URL names the first object of the bucket
getSignedUrl_FirstObject(bucket, objectKey, token) ==
    [bucket |-> bucket, objectKey |-> blobs[1].key, token |-> token]

\* getSignedUrl: createSignedUrl(objectKey, expiresIn) gives a URL for the
\* object with a token of the store's choice
getSignedUrl(bucket, objectKey, token) ==
    [bucket |-> bucket, objectKey |-> objectKey, token |-> token]

\* fetch(signedUrl) and arrayBuffer(): the bytes stored under the URL's
\* key; with upsert: false these are the bytes of the first write
download(signedUrl) ==
    LET written == {i \in DOMAIN blobs : blobs[i].key = signedUrl.objectKey}
    IN  IF signedUrl.bucket # "photos" \/ written = {} THEN NULL
        ELSE blobs[CHOOSE i \in written : \A j \in written : i <= j].bytes

createStorageObject(userId, bucket, objectKey, checksum) ==
    Append(storage_objects,
           [id |-> Len(storage_objects) + 1, user_id |-> userId,
            bucket |-> bucket, object_key |-> objectKey,
            checksum_sha256 |-> checksum])

createPhoto(userId, folderId) ==
    Append(photos,
           [id |-> Len(photos) + 1, user_id |-> userId, folder_id |-> folderId,
            created_at |-> Len(photos) + 1,
            favorite |-> FALSE, assigned_date |-> NULL,
            updated_at |-> NULL, deleted_at |-> NULL])

\* the rows of getPhoto without .is('deleted_at', null)
getPhotoRows_NoDeletedFilter(photoId, userId) ==
    {p \in Ids(photos) : photos[p].id = photoId /\ photos[p].user_id = userId}

\* the rows .eq('id', photoId).eq('user_id', userId).is('deleted_at', null)
getPhotoRows(photoId, userId) ==
    {p \in Ids(photos) : /\ photos[p].id = photoId
                         /\ photos[p].user_id = userId
                         /\ photos[p].deleted_at = NULL}

\* versions:photo_versions(*) embedded in a photo row
VersionsOf(photoId) ==
    {v \in Ids(photo_versions) : photo_versions[v].photo_id = photoId}

JobsOf(photoId) ==
    {j \in Ids(enhancement_jobs) : enhancement_jobs[j].photo_id = photoId}

\* the data of a result that carries no row (null)
NoPhoto == [id |-> NULL, deleted_at |-> NULL, versions |-> {}, jobs |-> {}]

\* getPhoto: .single() yields an error unless exactly one row matches, and the
\* error is thrown.
getPhoto(photoId, userId) ==
    IF Cardinality(getPhotoRows(photoId, userId)) = 1
    THEN [error |-> FALSE,
          data |-> [id |-> photoId,
                    deleted_at |-> photos[photoId].deleted_at,
                    versions |-> VersionsOf(photoId),
                    jobs |-> JobsOf(photoId)]]
    ELSE [error |-> TRUE, data |-> NoPhoto]

\* getUserPhotos: the matching rows before .range(); folderId = -1 stands for
\* undefined (no folder filter).
NoFilter == -1

\* getUserPhotos without .is('deleted_at', null)
getUserPhotos_NoDeletedFilter(userId, folderId, favorites) ==
    {p \in Ids(photos) :
        /\ photos[p].user_id = userId
        /\ (folderId # NoFilter => photos[p].folder_id = folderId)
        /\ (favorites => photos[p].favorite)}

getUserPhotos(userId, folderId, favorites) ==
    {p \in Ids(photos) :
        /\ photos[p].user_id = userId
        /\ photos[p].deleted_at = NULL
        /\ (folderId # NoFilter => photos[p].folder_id = folderId)
        /\ (favorites => photos[p].favorite)}

RECURSIVE NewestFirst(_)
\* .order('created_at', { ascending: false }) over a set of photo ids
NewestFirst(S) ==
    IF S = {} THEN <<>>
    ELSE LET newest == CHOOSE p \in S :
                            \A q \in S : photos[q].created_at <= photos[p].created_at
         IN  <<newest>> \o NewestFirst(S \ {newest})

\* .range(offset, offset + limit - 1) without the offset
PhotoWindow_FromStart(ordered, limit, offset) ==
    SubSeq(ordered, 1, IF limit < Len(ordered) THEN limit ELSE Len(ordered))

\* .range(offset, offset + limit - 1): the rows at the zero-based positions
\* offset .. offset + limit - 1 of the ordered result
PhotoWindow(ordered, limit, offset) ==
    SubSeq(ordered, offset + 1,
           IF offset + limit < Len(ordered) THEN offset + limit ELSE Len(ordered))

\* updatePhoto: the rows .eq('id', photoId).eq('user_id', userId)
updatePhotoRows(photoId, userId) ==
    {p \in Ids(photos) : photos[p].id = photoId /\ photos[p].user_id = userId}

softDeletePhoto(photoId, userId) ==
    [p \in Ids(photos) |->
        IF p \in updatePhotoRows(photoId, userId)
        THEN [photos[p] EXCEPT !.deleted_at = Stamp, !.updated_at = Stamp]
        ELSE photos[p]]

\* updatePhoto with one column (or none) in updates
updatePhoto(photoId, userId, updates) ==
    [p \in Ids(photos) |->
        IF p \in updatePhotoRows(photoId, userId)
        THEN IF updates.key = "folder_id"
             THEN [photos[p] EXCEPT !.folder_id = updates.value,
                                    !.updated_at = Stamp]
             ELSE IF updates.key = "deleted_at"
             THEN [photos[p] EXCEPT !.deleted_at = updates.value,
                                    !.updated_at = Stamp]
             ELSE IF updates.key = "favorite"
             THEN [photos[p] EXCEPT !.favorite = updates.value,
                                    !.updated_at = Stamp]
             ELSE [photos[p] EXCEPT !.updated_at = Stamp]
        ELSE photos[p]]

setAssignedDate(photoId, userId) ==
    [p \in Ids(photos) |->
        IF p \in updatePhotoRows(photoId, userId)
        THEN [photos[p] EXCEPT !.assigned_date = Stamp, !.updated_at = Stamp]
        ELSE photos[p]]

createPhotoVersion(userId, photoId, storageObjectId, isOriginal, parentVersionId, label) ==
    Append(photo_versions,
           [id |-> Len(photo_versions) + 1, user_id |-> userId,
            photo_id |-> photoId, storage_object_id |-> storageObjectId,
            is_original |-> isOriginal,
            parent_version_id |-> parentVersionId, label |-> label])

\* error_message of a job that has none (null)
NoMessage == "null"

createEnhancementJob(userId, photoId, inputVersionId) ==
    Append(enhancement_jobs,
           [id |-> Len(enhancement_jobs) + 1, user_id |-> userId,
            photo_id |-> photoId, input_version_id |-> inputVersionId,
            output_version_id |-> NULL, status |-> "queued",
            error_message |-> NoMessage])

\* updateEnhancementJob without .eq('id', jobId): every job of the user
updateJobRows_AllOfUser(jobId, userId) ==
    {j \in Ids(enhancement_jobs) : enhancement_jobs[j].user_id = userId}

\* updateEnhancementJob: the rows .eq('id', jobId).eq('user_id', userId)
updateJobRows(jobId, userId) ==
    {j \in Ids(enhancement_jobs) : /\ enhancement_jobs[j].id = jobId
                                   /\ enhancement_jobs[j].user_id = userId}

startEnhancementJob(jobId, userId) ==
    [j \in Ids(enhancement_jobs) |->
        IF j \in updateJobRows(jobId, userId)
        THEN [enhancement_jobs[j] EXCEPT !.status = "running"]
        ELSE enhancement_jobs[j]]

\* completeEnhancementJob that leaves output_version_id unset
completeEnhancementJob_NoOutput(jobId, userId, outputVersionId) ==
    [j \in Ids(enhancement_jobs) |->
        IF j \in updateJobRows(jobId, userId)
        THEN [enhancement_jobs[j] EXCEPT !.status = "succeeded"]
        ELSE enhancement_jobs[j]]

completeEnhancementJob(jobId, userId, outputVersionId) ==
    [j \in Ids(enhancement_jobs) |->
        IF j \in updateJobRows(jobId, userId)
        THEN [enhancement_jobs[j] EXCEPT !.status = "succeeded",
                                         !.output_version_id = outputVersionId]
        ELSE enhancement_jobs[j]]

\* failEnhancementJob that writes the message and leaves the status
failEnhancementJob_NoStatus(jobId, userId, errorMessage) ==
    [j \in Ids(enhancement_jobs) |->
        IF j \in updateJobRows(jobId, userId)
        THEN [enhancement_jobs[j] EXCEPT !.error_message = errorMessage]
        ELSE enhancement_jobs[j]]

failEnhancementJob(jobId, userId, errorMessage) ==
    [j \in Ids(enhancement_jobs) |->
        IF j \in updateJobRows(jobId, userId)
        THEN [enhancement_jobs[j] EXCEPT !.status = "failed",
                                         !.error_message = errorMessage]
        ELSE enhancement_jobs[j]]

createTag(userId) ==
    Append(tags, [id |-> Len(tags) + 1, user_id |-> userId])

\* addTagToPhoto / removeTagFromPhoto take no user id
addTagToPhoto(photoId, tagId) == photo_tags \cup {<<photoId, tagId>>}

removeTagFromPhoto(photoId, tagId) == photo_tags \ {<<photoId, tagId>>}

createComment(userId, photoId, versionId) ==
    Append(comments,
           [id |-> Len(comments) + 1, user_id |-> userId,
            photo_id |-> photoId, version_id |-> versionId])

\* getPhotoComments takes no user id
getPhotoComments(photoId) ==
    {c \in Ids(comments) : comments[c].photo_id = photoId}

----------------------------------------------------------------------------
(* Handler activations *)

ModelOutcomes ==
    {"image", "text", "empty", "SAFETY", "not available in your country",
     "fetch failed"}

\* messages of the errors thrown by database and storage calls
DbError == "db error"

\* a handler that holds no object key
NoKey == <<>>

NewReq(kind, userId) ==
    [kind |-> kind, userId |-> userId, pc |-> "start",
     photoId |-> NULL, versionId |-> NULL, notes |-> FALSE,
     assignedDate |-> FALSE,
     versions |-> {}, inputVersion |-> NULL, job |-> NULL,
     model |-> "none", error |-> "none", failAttempted |-> FALSE,
     objectKey |-> NoKey, bytes |-> NULL, storageObject |-> NULL,
     originalVersion |-> NULL, version |-> NULL, status |-> 0]

InFlight == {r \in DOMAIN reqs : reqs[r].pc # "done"}

CanStart == Len(reqs) < MaxRequests /\ Cardinality(InFlight) < MaxInFlight

Started(kind) == Cardinality({r \in DOMAIN reqs : reqs[r].kind = kind})

\* the response is sent; the handler's storage locals go out of scope
Respond(req, status) ==
    [req EXCEPT !.pc = "done", !.status = status,
                !.objectKey = NoKey, !.bytes = NULL,
                !.storageObject = NULL]

At(r, kind, pc) ==
    r \in DOMAIN reqs /\ reqs[r].kind = kind /\ reqs[r].pc = pc

Min(S) == CHOOSE x \in S : \A y \in S : x <= y

----------------------------------------------------------------------------
(* POST /api/photos, src/src/server.js:118-178 *)

\* the request arrives with a file and the blob is written (or the write
\* throws, and the catch answers 500)
UploadToStorage(u, fileBuffer) ==
    /\ CanStart
    /\ Started("upload") < MaxUploads
    /\ \E ok \in BOOLEAN :
        LET key == uploadToStorage(u, fileBuffer, TRUE).objectKey
            req == [NewReq("upload", u) EXCEPT !.pc = "createStorageObject",
                                               !.objectKey = key,
                                               !.bytes = fileBuffer]
        IN  IF ok
            THEN /\ blobs' = upload(key, fileBuffer)
                 /\ reqs' = Append(reqs, req)
            ELSE /\ blobs' = blobs
                 /\ reqs' = Append(reqs, Respond(NewReq("upload", u), 500))
    /\ UNCHANGED <<edgeVars, folders, folderTree, storage_objects, photos, photo_versions, enhancement_jobs,
                   tags, photo_tags, comments, last>>

UploadCreateStorageObject(r) ==
    /\ At(r, "upload", "createStorageObject")
    /\ \E ok \in BOOLEAN :
        IF ok
        THEN /\ storage_objects' =
                    createStorageObject(reqs[r].userId, "photos", reqs[r].objectKey,
                                        calculateChecksum(reqs[r].bytes))
             /\ reqs' = [reqs EXCEPT ![r].pc = "createPhoto",
                                     ![r].storageObject = Len(storage_objects) + 1]
        ELSE /\ storage_objects' = storage_objects
             /\ reqs' = [reqs EXCEPT ![r] = Respond(@, 500)]
    /\ UNCHANGED <<edgeVars, folders, folderTree, blobs, photos, photo_versions, enhancement_jobs,
                   tags, photo_tags, comments, last>>

UploadCreatePhoto(r) ==
    /\ At(r, "upload", "createPhoto")
    /\ \E ok \in BOOLEAN :
        IF ok
        THEN /\ photos' = createPhoto(reqs[r].userId, NULL)
             /\ reqs' = [reqs EXCEPT ![r].pc = "createPhotoVersion",
                                     ![r].photoId = Len(photos) + 1]
        ELSE /\ photos' = photos
             /\ reqs' = [reqs EXCEPT ![r] = Respond(@, 500)]
    /\ UNCHANGED <<edgeVars, folders, folderTree, blobs, storage_objects, photo_versions, enhancement_jobs,
                   tags, photo_tags, comments, last>>

UploadCreatePhotoVersion(r) ==
    /\ At(r, "upload", "createPhotoVersion")
    /\ \E ok \in BOOLEAN :
        IF ok
        THEN /\ photo_versions' =
                    createPhotoVersion(reqs[r].userId, reqs[r].photoId,
                                       reqs[r].storageObject, TRUE, NULL,
                                       "Original")
             /\ reqs' = [reqs EXCEPT ![r].pc = "getSignedUrl",
                                     ![r].version = Len(photo_versions) + 1]
        ELSE /\ photo_versions' = photo_versions
             /\ reqs' = [reqs EXCEPT ![r] = Respond(@, 500)]
    /\ UNCHANGED <<edgeVars, folders, folderTree, blobs, storage_objects, photos, enhancement_jobs,
                   tags, photo_tags, comments, last>>

UploadGetSignedUrl(r) ==
    /\ At(r, "upload", "getSignedUrl")
    /\ \E ok \in BOOLEAN :
        reqs' = [reqs EXCEPT ![r] = Respond(@, IF ok THEN 200 ELSE 500)]
    /\ UNCHANGED <<edgeVars, folders, folderTree>> /\ UNCHANGED tables
    /\ UNCHANGED last

----------------------------------------------------------------------------
(* POST /api/photos/:photoId/enhance, src/src/server.js:181-372 *)

\* the catch block's choice of response status
ErrorStatus(message) ==
    IF message = "not available in your country" THEN 422
    ELSE IF message = "SAFETY" THEN 422
    ELSE 500

\* control reaches the catch block: with no job the response is sent at
\* once, with a job the handler first awaits failEnhancementJob
Catch(req, message) ==
    IF req.job = NULL
    THEN Respond([req EXCEPT !.error = message], ErrorStatus(message))
    ELSE [req EXCEPT !.pc = "catch", !.error = message]

\* the input version taken from the versionId parameter without the lookup
FindInputVersion_Unchecked(versions, versionId) ==
    LET found == IF versionId # NULL
                 THEN {versionId}
                 ELSE {v \in versions : photo_versions[v].is_original}
    IN  IF found = {} THEN NULL ELSE Min(found)

\* photo.versions.find(...) over the snapshot read by getPhoto
FindInputVersion(versions, versionId) ==
    LET found == IF versionId # NULL
                 THEN {v \in versions : photo_versions[v].id = versionId}
                 ELSE {v \in versions : photo_versions[v].is_original}
    IN  IF found = {} THEN NULL ELSE Min(found)

\* photo.versions.length: the count without the filter
EnhancedCount_AllVersions(versions) == Cardinality(versions)

\* photo.versions.filter(v => !v.is_original).length
EnhancedCount(versions) ==
    Cardinality({v \in versions : ~photo_versions[v].is_original})

EnhancedLabel(versions) == "Enhanced v" \o ToString(EnhancedCount(versions) + 1)

EnhanceGetPhoto(u, p, vid) ==
    /\ CanStart
    /\ \E ok \in BOOLEAN :
        LET req == [NewReq("enhance", u) EXCEPT !.photoId = p, !.versionId = vid]
            res == getPhoto(p, u)
        IN  IF ok /\ ~res.error
            THEN LET input == FindInputVersion(res.data.versions, vid)
                 IN  IF input = NULL
                     THEN reqs' = Append(reqs, Respond(req, 400))
                     ELSE reqs' = Append(reqs,
                              [req EXCEPT !.pc = "createEnhancementJob",
                                          !.versions = res.data.versions,
                                          !.inputVersion = input])
            ELSE reqs' = Append(reqs, Catch(req, DbError))
    /\ UNCHANGED <<edgeVars, folders, folderTree>> /\ UNCHANGED tables
    /\ UNCHANGED last

EnhanceCreateJob(r) ==
    /\ At(r, "enhance", "createEnhancementJob")
    /\ \E ok \in BOOLEAN :
        IF ok
        THEN /\ enhancement_jobs' =
                    createEnhancementJob(reqs[r].userId, reqs[r].photoId,
                                         reqs[r].inputVersion)
             /\ reqs' = [reqs EXCEPT ![r].pc = "startEnhancementJob",
                                     ![r].job = Len(enhancement_jobs) + 1]
        ELSE /\ enhancement_jobs' = enhancement_jobs
             /\ reqs' = [reqs EXCEPT ![r] = Catch(@, DbError)]
    /\ UNCHANGED <<edgeVars, folders, folderTree, blobs, storage_objects, photos, photo_versions,
                   tags, photo_tags, comments, last>>

EnhanceStartJob(r) ==
    /\ At(r, "enhance", "startEnhancementJob")
    /\ \E ok \in BOOLEAN :
        IF ok
        THEN /\ enhancement_jobs' =
                    startEnhancementJob(reqs[r].job, reqs[r].userId)
             /\ reqs' = [reqs EXCEPT ![r].pc = "generateContent"]
        ELSE /\ enhancement_jobs' = enhancement_jobs
             /\ reqs' = [reqs EXCEPT ![r] = Catch(@, DbError)]
    /\ UNCHANGED <<edgeVars, folders, folderTree, blobs, storage_objects, photos, photo_versions,
                   tags, photo_tags, comments, last>>

\* getSignedUrl of the input version, fetch of its bytes (neither writes
\* anything; a throw of either is the outcome "fetch failed"), then
\* ai.models.generateContent and the extraction of the image from its reply
EnhanceGenerateContent(r) ==
    /\ At(r, "enhance", "generateContent")
    /\ \E outcome \in ModelOutcomes :
        reqs' = IF outcome = "image"
                THEN [reqs EXCEPT ![r].pc = "uploadToStorage",
                                  ![r].model = outcome]
                ELSE IF outcome \in {"text", "empty"}
                THEN [reqs EXCEPT ![r].pc = "failNoImage",
                                  ![r].model = outcome]
                ELSE [reqs EXCEPT ![r] = Catch([@ EXCEPT !.model = outcome],
                                               outcome)]
    /\ UNCHANGED <<edgeVars, folders, folderTree>> /\ UNCHANGED tables
    /\ UNCHANGED last

\* if (!enhancedImageData): failEnhancementJob, then 422
EnhanceFailNoImage(r) ==
    /\ At(r, "enhance", "failNoImage")
    /\ \E ok \in BOOLEAN :
        LET errorText == IF reqs[r].model = "text" THEN "text"
                         ELSE "No image returned"
            req == [reqs[r] EXCEPT !.failAttempted = TRUE]
        IN  IF ok
            THEN /\ enhancement_jobs' =
                        failEnhancementJob(req.job, req.userId, errorText)
                 /\ reqs' = [reqs EXCEPT ![r] = Respond(req, 422)]
            ELSE /\ enhancement_jobs' = enhancement_jobs
                 /\ reqs' = [reqs EXCEPT ![r] = Catch(req, DbError)]
    /\ UNCHANGED <<edgeVars, folders, folderTree, blobs, storage_objects, photos, photo_versions,
                   tags, photo_tags, comments, last>>

EnhanceUploadToStorage(r) ==
    /\ At(r, "enhance", "uploadToStorage")
    /\ \E ok \in BOOLEAN :
        LET key == uploadToStorage(reqs[r].userId, SomeBytes, FALSE).objectKey
        IN  IF ok
            THEN /\ blobs' = upload(key, SomeBytes)
                 /\ reqs' = [reqs EXCEPT ![r].pc = "createStorageObject",
                                         ![r].objectKey = key]
            ELSE /\ blobs' = blobs
                 /\ reqs' = [reqs EXCEPT ![r] = Catch(@, DbError)]
    /\ UNCHANGED <<edgeVars, folders, folderTree, storage_objects, photos, photo_versions, enhancement_jobs,
                   tags, photo_tags, comments, last>>

EnhanceCreateStorageObject(r) ==
    /\ At(r, "enhance", "createStorageObject")
    /\ \E ok \in BOOLEAN :
        IF ok
        THEN /\ storage_objects' =
                    createStorageObject(reqs[r].userId, "photos", reqs[r].objectKey,
                                        calculateChecksum(SomeBytes))
             /\ reqs' = [reqs EXCEPT ![r].pc = "createPhotoVersion",
                                     ![r].storageObject = Len(storage_objects) + 1]
        ELSE /\ storage_objects' = storage_objects
             /\ reqs' = [reqs EXCEPT ![r] = Catch(@, DbError)]
    /\ UNCHANGED <<edgeVars, folders, folderTree, blobs, photos, photo_versions, enhancement_jobs,
                   tags, photo_tags, comments, last>>

EnhanceCreatePhotoVersion(r) ==
    /\ At(r, "enhance", "createPhotoVersion")
    /\ \E ok \in BOOLEAN :
        IF ok
        THEN /\ photo_versions' =
                    createPhotoVersion(reqs[r].userId, reqs[r].photoId,
                                       reqs[r].storageObject, FALSE,
                                       reqs[r].inputVersion,
                                       EnhancedLabel(reqs[r].versions))
             /\ reqs' = [reqs EXCEPT ![r].pc = "completeEnhancementJob",
                                     ![r].version = Len(photo_versions) + 1]
        ELSE /\ photo_versions' = photo_versions
             /\ reqs' = [reqs EXCEPT ![r] = Catch(@, DbError)]
    /\ UNCHANGED <<edgeVars, folders, folderTree, blobs, storage_objects, photos, enhancement_jobs,
                   tags, photo_tags, comments, last>>

EnhanceCompleteJob(r) ==
    /\ At(r, "enhance", "completeEnhancementJob")
    /\ \E ok \in BOOLEAN :
        IF ok
        THEN /\ enhancement_jobs' =
                    completeEnhancementJob(reqs[r].job, reqs[r].userId,
                                           reqs[r].version)
             /\ reqs' = [reqs EXCEPT ![r].pc = "getSignedUrl"]
        ELSE /\ enhancement_jobs' = enhancement_jobs
             /\ reqs' = [reqs EXCEPT ![r] = Catch(@, DbError)]
    /\ UNCHANGED <<edgeVars, folders, folderTree, blobs, storage_objects, photos, photo_versions,
                   tags, photo_tags, comments, last>>

\* getSignedUrl of the result, then the 200 response
EnhanceGetSignedUrl(r) ==
    /\ At(r, "enhance", "getSignedUrl")
    /\ \E ok \in BOOLEAN :
        reqs' = IF ok
                THEN [reqs EXCEPT ![r] = Respond(@, 200)]
                ELSE [reqs EXCEPT ![r] = Catch(@, DbError)]
    /\ UNCHANGED <<edgeVars, folders, folderTree>> /\ UNCHANGED tables
    /\ UNCHANGED last

\* catch (error) with a job: failEnhancementJob(...).catch(console.error),
\* then the response chosen from error.message
EnhanceCatch(r) ==
    /\ At(r, "enhance", "catch")
    /\ \E ok \in BOOLEAN :
        /\ enhancement_jobs' =
              IF ok
              THEN failEnhancementJob(reqs[r].job, reqs[r].userId, reqs[r].error)
              ELSE enhancement_jobs
        /\ reqs' = [reqs EXCEPT ![r] =
                       Respond([@ EXCEPT !.failAttempted = TRUE],
                               ErrorStatus(@.error))]
    /\ UNCHANGED <<edgeVars, folders, folderTree, blobs, storage_objects, photos, photo_versions,
                   tags, photo_tags, comments, last>>

----------------------------------------------------------------------------
(* POST /api/save-to-library, src/src/server.js:494-612 *)

\* a database or storage call of the handler: on success the handler moves to
\* its next await, on a throw the catch block answers 500
SaveThrow(r) == reqs' = [reqs EXCEPT ![r] = Respond([@ EXCEPT !.error = DbError], 500)]

SaveUploadOriginal(u, notes, assignedDate) ==
    /\ CanStart
    /\ Started("save") < MaxSaves
    /\ \E ok \in BOOLEAN :
        LET key == uploadToStorage(u, SomeBytes, TRUE).objectKey
            req == [NewReq("save", u) EXCEPT !.notes = notes,
                                             !.assignedDate = assignedDate]
        IN  IF ok
            THEN /\ blobs' = upload(key, SomeBytes)
                 /\ reqs' = Append(reqs, [req EXCEPT !.pc = "createStorageObject",
                                                     !.objectKey = key])
            ELSE /\ blobs' = blobs
                 /\ reqs' = Append(reqs, Respond([req EXCEPT !.error = DbError], 500))
    /\ UNCHANGED <<edgeVars, folders, folderTree, storage_objects, photos, photo_versions, enhancement_jobs,
                   tags, photo_tags, comments, last>>

SaveCreateStorageObject(r) ==
    /\ At(r, "save", "createStorageObject")
    /\ \E ok \in BOOLEAN :
        IF ok
        THEN /\ storage_objects' =
                    createStorageObject(reqs[r].userId, "photos", reqs[r].objectKey,
                                        calculateChecksum(SomeBytes))
             /\ reqs' = [reqs EXCEPT ![r].pc = "createPhoto",
                                     ![r].storageObject = Len(storage_objects) + 1]
        ELSE /\ storage_objects' = storage_objects
             /\ SaveThrow(r)
    /\ UNCHANGED <<edgeVars, folders, folderTree, blobs, photos, photo_versions, enhancement_jobs,
                   tags, photo_tags, comments, last>>

SaveCreatePhoto(r) ==
    /\ At(r, "save", "createPhoto")
    /\ \E ok \in BOOLEAN :
        IF ok
        THEN /\ photos' = createPhoto(reqs[r].userId, NULL)
             /\ reqs' = [reqs EXCEPT ![r].pc = IF reqs[r].assignedDate
                                               THEN "updatePhoto"
                                               ELSE "createOriginalVersion",
                                     ![r].photoId = Len(photos) + 1]
        ELSE /\ photos' = photos
             /\ SaveThrow(r)
    /\ UNCHANGED <<edgeVars, folders, folderTree, blobs, storage_objects, photo_versions, enhancement_jobs,
                   tags, photo_tags, comments, last>>

\* if (assignedDate) updatePhoto(photo.id, userId, { assigned_date })
SaveUpdatePhoto(r) ==
    /\ At(r, "save", "updatePhoto")
    /\ \E ok \in BOOLEAN :
        IF ok /\ Cardinality(updatePhotoRows(reqs[r].photoId, reqs[r].userId)) = 1
        THEN /\ photos' = setAssignedDate(reqs[r].photoId, reqs[r].userId)
             /\ reqs' = [reqs EXCEPT ![r].pc = "createOriginalVersion"]
        ELSE /\ photos' = photos
             /\ SaveThrow(r)
    /\ UNCHANGED <<edgeVars, folders, folderTree, blobs, storage_objects, photo_versions, enhancement_jobs,
                   tags, photo_tags, comments, last>>

SaveCreateOriginalVersion(r) ==
    /\ At(r, "save", "createOriginalVersion")
    /\ \E ok \in BOOLEAN :
        IF ok
        THEN /\ photo_versions' =
                    createPhotoVersion(reqs[r].userId, reqs[r].photoId,
                                       reqs[r].storageObject, TRUE, NULL,
                                       "Original")
             /\ reqs' = [reqs EXCEPT ![r].pc = "uploadEnhanced",
                                     ![r].originalVersion = Len(photo_versions) + 1,
                                     ![r].inputVersion = Len(photo_versions) + 1]
        ELSE /\ photo_versions' = photo_versions
             /\ SaveThrow(r)
    /\ UNCHANGED <<edgeVars, folders, folderTree, blobs, storage_objects, photos, enhancement_jobs,
                   tags, photo_tags, comments, last>>

SaveUploadEnhanced(r) ==
    /\ At(r, "save", "uploadEnhanced")
    /\ \E ok \in BOOLEAN :
        LET key == uploadToStorage(reqs[r].userId, SomeBytes, FALSE).objectKey
        IN  IF ok
            THEN /\ blobs' = upload(key, SomeBytes)
                 /\ reqs' = [reqs EXCEPT ![r].pc = "createEnhancedStorageObject",
                                         ![r].objectKey = key]
            ELSE /\ blobs' = blobs
                 /\ SaveThrow(r)
    /\ UNCHANGED <<edgeVars, folders, folderTree, storage_objects, photos, photo_versions, enhancement_jobs,
                   tags, photo_tags, comments, last>>

SaveCreateEnhancedStorageObject(r) ==
    /\ At(r, "save", "createEnhancedStorageObject")
    /\ \E ok \in BOOLEAN :
        IF ok
        THEN /\ storage_objects' =
                    createStorageObject(reqs[r].userId, "photos", reqs[r].objectKey,
                                        calculateChecksum(SomeBytes))
             /\ reqs' = [reqs EXCEPT ![r].pc = "createEnhancedVersion",
                                     ![r].storageObject = Len(storage_objects) + 1]
        ELSE /\ storage_objects' = storage_objects
             /\ SaveThrow(r)
    /\ UNCHANGED <<edgeVars, folders, folderTree, blobs, photos, photo_versions, enhancement_jobs,
                   tags, photo_tags, comments, last>>

SaveCreateEnhancedVersion(r) ==
    /\ At(r, "save", "createEnhancedVersion")
    /\ \E ok \in BOOLEAN :
        IF ok
        THEN /\ photo_versions' =
                    createPhotoVersion(reqs[r].userId, reqs[r].photoId,
                                       reqs[r].storageObject, FALSE,
                                       reqs[r].originalVersion, "Enhanced v1")
             /\ reqs' = [reqs EXCEPT ![r].pc = "createEnhancementJob",
                                     ![r].version = Len(photo_versions) + 1]
        ELSE /\ photo_versions' = photo_versions
             /\ SaveThrow(r)
    /\ UNCHANGED <<edgeVars, folders, folderTree, blobs, storage_objects, photos, enhancement_jobs,
                   tags, photo_tags, comments, last>>

SaveCreateJob(r) ==
    /\ At(r, "save", "createEnhancementJob")
    /\ \E ok \in BOOLEAN :
        IF ok
        THEN /\ enhancement_jobs' =
                    createEnhancementJob(reqs[r].userId, reqs[r].photoId,
                                         reqs[r].originalVersion)
             /\ reqs' = [reqs EXCEPT ![r].pc = "startEnhancementJob",
                                     ![r].job = Len(enhancement_jobs) + 1]
        ELSE /\ enhancement_jobs' = enhancement_jobs
             /\ SaveThrow(r)
    /\ UNCHANGED <<edgeVars, folders, folderTree, blobs, storage_objects, photos, photo_versions,
                   tags, photo_tags, comments, last>>

SaveStartJob(r) ==
    /\ At(r, "save", "startEnhancementJob")
    /\ \E ok \in BOOLEAN :
        IF ok
        THEN /\ enhancement_jobs' =
                    startEnhancementJob(reqs[r].job, reqs[r].userId)
             /\ reqs' = [reqs EXCEPT ![r].pc = "completeEnhancementJob"]
        ELSE /\ enhancement_jobs' = enhancement_jobs
             /\ SaveThrow(r)
    /\ UNCHANGED <<edgeVars, folders, folderTree, blobs, storage_objects, photos, photo_versions,
                   tags, photo_tags, comments, last>>

\* completeEnhancementJob; without notes the 200 response follows at once
SaveCompleteJob(r) ==
    /\ At(r, "save", "completeEnhancementJob")
    /\ \E ok \in BOOLEAN :
        IF ok
        THEN /\ enhancement_jobs' =
                    completeEnhancementJob(reqs[r].job, reqs[r].userId,
                                           reqs[r].version)
             /\ reqs' = IF reqs[r].notes
                        THEN [reqs EXCEPT ![r].pc = "createComment"]
                        ELSE [reqs EXCEPT ![r] = Respond(@, 200)]
        ELSE /\ enhancement_jobs' = enhancement_jobs
             /\ SaveThrow(r)
    /\ UNCHANGED <<edgeVars, folders, folderTree, blobs, storage_objects, photos, photo_versions,
                   tags, photo_tags, comments, last>>

\* if (notes) createComment(...), then the 200 response
SaveCreateComment(r) ==
    /\ At(r, "save", "createComment")
    /\ \E ok \in BOOLEAN :
        IF ok
        THEN /\ comments' = createComment(reqs[r].userId, reqs[r].photoId,
                                          reqs[r].version)
             /\ reqs' = [reqs EXCEPT ![r] = Respond(@, 200)]
        ELSE /\ comments' = comments
             /\ SaveThrow(r)
    /\ UNCHANGED <<edgeVars, folders, folderTree, blobs, storage_objects, photos, photo_versions,
                   enhancement_jobs, tags, photo_tags, last>>

----------------------------------------------------------------------------
(* Single-query endpoints, src/src/server.js:619-875.  Each records its    *)
(* response in last.                                                       *)

Response(op, userId, photoId, status, photo, rows) ==
    [op |-> op, userId |-> userId, photoId |-> photoId, status |-> status,
     photo |-> photo, rows |-> rows]

PhotoArgs == 1..(Len(photos) + 1)

\* GET /api/photos/:photoId
GetPhoto(u, p) ==
    /\ \E ok \in BOOLEAN :
        LET res == getPhoto(p, u)
        IN  last' = IF res.error
                    THEN Response("GET photo", u, p, 500, NoPhoto, {})
                    ELSE IF res.data.id = NULL
                    THEN Response("GET photo", u, p, 404, NoPhoto, {})
                    ELSE IF ~ok   \* getSignedUrl throws
                    THEN Response("GET photo", u, p, 500, NoPhoto, {})
                    ELSE Response("GET photo", u, p, 200, res.data,
                                  res.data.versions)
    /\ UNCHANGED <<edgeVars, folders, folderTree>> /\ UNCHANGED tables
    /\ UNCHANGED reqs

\* the number a decimal query-string value denotes
parseInt(string) == CHOOSE n \in 0..9 : ToString(n) = string

FolderArgs == 1..(Len(folders) + 1)

\* folderId === 'null' ? null : (folderId ? parseInt(folderId) : undefined)
FolderIdOf(folderId) ==
    IF folderId = "null" THEN NULL
    ELSE IF folderId # "" THEN parseInt(folderId) ELSE NoFilter

DefaultLimit == 50
DefaultOffset == 0

\* limit ? parseInt(limit) : 50
LimitOf(limit) == IF limit # "" THEN parseInt(limit) ELSE DefaultLimit

\* offset ? parseInt(offset) : 0
OffsetOf(offset) == IF offset # "" THEN parseInt(offset) ELSE DefaultOffset

PhotosResponse(userId, query, status, page, total) ==
    [op |-> "GET photos", userId |-> userId, photoId |-> NULL,
     status |-> status, photo |-> NoPhoto,
     rows |-> {page[i] : i \in DOMAIN page},
     query |-> query, photos |-> page, total |-> total]

\* GET /api/photos: the query parameters are strings, "" an absent one
ListPhotos(u, folderId, favorites, limit, offset) ==
    /\ \E ok \in BOOLEAN :
        LET query == [folderId |-> folderId, favorites |-> favorites,
                      limit |-> limit, offset |-> offset]
            matching == getUserPhotos(u, FolderIdOf(folderId), favorites = "true")
            page == PhotoWindow(NewestFirst(matching), LimitOf(limit),
                                OffsetOf(offset))
        IN  last' = IF ok
                    THEN PhotosResponse(u, query, 200, page, Cardinality(matching))
                    ELSE PhotosResponse(u, query, 500, <<>>, 0)
    /\ UNCHANGED <<edgeVars, folders, folderTree>> /\ UNCHANGED tables
    /\ UNCHANGED reqs

\* the bodies of PATCH /api/photos/:photoId with the key folderId or favorite
PhotoPatchBodies ==
    {[key |-> "folderId", value |-> f] : f \in {NULL} \cup FolderArgs}
    \cup {[key |-> "favorite", value |-> b] : b \in BOOLEAN}

\* a body that names the column deleted_at
ClearDeletedAt == [key |-> "deleted_at", value |-> NULL]

\* updates with no column
NoPhotoUpdates == [key |-> "none", value |-> NULL]

\* the handler that hands the body to updatePhoto as it is
PatchUpdates_WholeBody(body) == body

\* the updates that the handler builds from the keys it reads off the body
PatchUpdates(body) ==
    IF body.key = "folderId" THEN [key |-> "folder_id", value |-> body.value]
    ELSE IF body.key = "favorite" THEN [key |-> "favorite", value |-> body.value]
    ELSE NoPhotoUpdates

\* PATCH /api/photos/:photoId: the update throws when it matches no row
\* (.single()) or when folder_id names no folder (photos_folder_id_fkey)
UpdatePhoto(u, p, body) ==
    /\ \E ok \in BOOLEAN :
        IF /\ ok
           /\ Cardinality(updatePhotoRows(p, u)) = 1
           /\ PatchUpdates(body).key = "folder_id"
                => PatchUpdates(body).value \in {NULL} \cup Ids(folders)
        THEN /\ photos' = updatePhoto(p, u, PatchUpdates(body))
             /\ last' = Response("PATCH photo", u, p, 200, NoPhoto, {})
        ELSE /\ photos' = photos
             /\ last' = Response("PATCH photo", u, p, 500, NoPhoto, {})
    /\ UNCHANGED <<edgeVars, folders, folderTree, blobs, storage_objects, photo_versions,
                   enhancement_jobs, tags, photo_tags, comments, reqs>>

\* DELETE /api/photos/:photoId
DeletePhoto(u, p) ==
    /\ \E ok \in BOOLEAN :
        IF ok /\ Cardinality(updatePhotoRows(p, u)) = 1
        THEN /\ photos' = softDeletePhoto(p, u)
             /\ last' = Response("DELETE photo", u, p, 200, NoPhoto, {})
        ELSE /\ photos' = photos
             /\ last' = Response("DELETE photo", u, p, 500, NoPhoto, {})
    /\ UNCHANGED <<edgeVars, folders, folderTree, blobs, storage_objects, photo_versions, enhancement_jobs,
                   tags, photo_tags, comments, reqs>>

\* POST /api/tags
CreateTag(u) ==
    /\ Len(tags) < MaxTags
    /\ \E ok \in BOOLEAN :
        IF ok
        THEN /\ tags' = createTag(u)
             /\ last' = Response("POST tag", u, NULL, 200, NoPhoto, {Len(tags) + 1})
        ELSE /\ tags' = tags
             /\ last' = Response("POST tag", u, NULL, 500, NoPhoto, {})
    /\ UNCHANGED <<edgeVars, folders, folderTree, blobs, storage_objects, photos, photo_versions,
                   enhancement_jobs, photo_tags, comments, reqs>>

\* POST /api/photos/:photoId/tags/:tagId
AddTag(u, p, t) ==
    /\ p \in Ids(photos) /\ t \in Ids(tags)
    /\ \E ok \in BOOLEAN :
        IF ok
        THEN /\ photo_tags' = addTagToPhoto(p, t)
             /\ last' = Response("POST photo tag", u, p, 200, NoPhoto, {})
        ELSE /\ photo_tags' = photo_tags
             /\ last' = Response("POST photo tag", u, p, 500, NoPhoto, {})
    /\ UNCHANGED <<edgeVars, folders, folderTree, blobs, storage_objects, photos, photo_versions,
                   enhancement_jobs, tags, comments, reqs>>

\* DELETE /api/photos/:photoId/tags/:tagId
RemoveTag(u, p, t) ==
    /\ p \in Ids(photos) /\ t \in Ids(tags)
    /\ \E ok \in BOOLEAN :
        IF ok
        THEN /\ photo_tags' = removeTagFromPhoto(p, t)
             /\ last' = Response("DELETE photo tag", u, p, 200, NoPhoto, {})
        ELSE /\ photo_tags' = photo_tags
             /\ last' = Response("DELETE photo tag", u, p, 500, NoPhoto, {})
    /\ UNCHANGED <<edgeVars, folders, folderTree, blobs, storage_objects, photos, photo_versions,
                   enhancement_jobs, tags, comments, reqs>>

\* GET /api/photos/:photoId/comments
GetComments(u, p) ==
    /\ \E ok \in BOOLEAN :
        last' = IF ok
                THEN Response("GET comments", u, p, 200, NoPhoto,
                              getPhotoComments(p))
                ELSE Response("GET comments", u, p, 500, NoPhoto, {})
    /\ UNCHANGED <<edgeVars, folders, folderTree>> /\ UNCHANGED tables
    /\ UNCHANGED reqs

\* POST /api/photos/:photoId/comments (no versionId)
PostComment(u, p) ==
    /\ p \in Ids(photos)
    /\ Len(comments) < MaxComments
    /\ \E ok \in BOOLEAN :
        IF ok
        THEN /\ comments' = createComment(u, p, NULL)
             /\ last' = Response("POST comment", u, p, 200, NoPhoto,
                                 {Len(comments) + 1})
        ELSE /\ comments' = comments
             /\ last' = Response("POST comment", u, p, 500, NoPhoto, {})
    /\ UNCHANGED <<edgeVars, folders, folderTree, blobs, storage_objects, photos, photo_versions,
                   enhancement_jobs, tags, photo_tags, reqs>>

----------------------------------------------------------------------------
(* Folders: src/src/database.js:297-364, src/src/server.js:707-765 *)

FolderNames == {1, 2}       \* folder names, numbered in collation order
DefaultName == 1            \* the name of a folder that is never renamed
SortOrders == {0, 1}        \* values of sort_order
DefaultSortOrder == 0       \* sort_order of an inserted row
Undefined == -1             \* a key that is absent from a request body

\* parentId || null
createFolder(userId, parentId, name) ==
    Append(folders,
           [id |-> Len(folders) + 1, user_id |-> userId,
            parent_id |-> IF parentId # 0 THEN parentId ELSE NULL,
            name |-> name, sort_order |-> DefaultSortOrder,
            updated_at |-> Stamp, deleted_at |-> NULL])

LiveFolders(userId) ==
    {f \in Ids(folders) : /\ folders[f].user_id = userId
                          /\ folders[f].deleted_at = NULL}

\* .order('sort_order', ascending).order('name', ascending)
FolderBefore(a, b) ==
    \/ a.sort_order < b.sort_order
    \/ a.sort_order = b.sort_order /\ a.name <= b.name

\* the orders in which the database may return the rows of S: sorted by
\* (sort_order, name), rows of equal key in any order
OrderedRows(S) ==
    {[i \in 1..Cardinality(S) |-> folders[seq[i]]] :
        seq \in {q \in [1..Cardinality(S) -> S] :
                    /\ \A i, j \in 1..Cardinality(S) : i # j => q[i] # q[j]
                    /\ \A i, j \in 1..Cardinality(S) :
                            i < j => FolderBefore(folders[q[i]], folders[q[j]])}}

\* getUserFolders without the parent_id filter
getUserFolders_NoParentFilter(userId, parentId) ==
    OrderedRows(LiveFolders(userId))

getUserFolders(userId, parentId) ==
    OrderedRows({f \in LiveFolders(userId) :
                    IF parentId = NULL
                    THEN folders[f].parent_id = NULL
                    ELSE folders[f].parent_id = parentId})

getAllUserFolders(userId) == OrderedRows(LiveFolders(userId))

\* the rows .eq('id', folderId).eq('user_id', userId)
updateFolderRows(folderId, userId) ==
    {f \in Ids(folders) : /\ folders[f].id = folderId
                          /\ folders[f].user_id = userId}

\* update({...updates, updated_at}): the keys present in updates are written
updateFolder(folderId, userId, updates) ==
    [f \in Ids(folders) |->
        IF f \in updateFolderRows(folderId, userId)
        THEN [folders[f] EXCEPT
                !.name = IF updates.name # Undefined THEN updates.name ELSE @,
                !.parent_id = IF updates.parent_id # Undefined
                              THEN updates.parent_id ELSE @,
                !.sort_order = IF updates.sort_order # Undefined
                               THEN updates.sort_order ELSE @,
                !.deleted_at = IF updates.deleted_at # Undefined
                               THEN updates.deleted_at ELSE @,
                !.updated_at = Stamp]
        ELSE folders[f]]

NoUpdates ==
    [name |-> Undefined, parent_id |-> Undefined, sort_order |-> Undefined,
     deleted_at |-> Undefined]

softDeleteFolder(folderId, userId) ==
    updateFolder(folderId, userId, [NoUpdates EXCEPT !.deleted_at = Stamp])

FolderResponse(op, userId, parentId, all, status, rows) ==
    [op |-> op, userId |-> userId, parentId |-> parentId, all |-> all,
     status |-> status, rows |-> rows]

\* the values of the parentId query parameter: absent or empty, "null", or
\* the decimal form of an id
ParentIdParams == {"", "null"} \cup {ToString(f) : f \in FolderArgs}

\* parentId === 'null' ? null : (parentId ? parseInt(parentId) : null)
ParentIdOf(parentId) ==
    IF parentId = "null" THEN NULL
    ELSE IF parentId # "" THEN parseInt(parentId) ELSE NULL

\* GET /api/folders
ListFolders(u, parentId, all) ==
    /\ \E ok \in BOOLEAN :
        IF ok
        THEN \E rows \in (IF all = "true" THEN getAllUserFolders(u)
                          ELSE getUserFolders(u, ParentIdOf(parentId))) :
                last' = FolderResponse("listFolders", u, parentId, all, 200, rows)
        ELSE last' = FolderResponse("listFolders", u, parentId, all, 500, <<>>)
    /\ UNCHANGED <<edgeVars, folders, folderTree, reqs>>
    /\ UNCHANGED tables

\* POST /api/folders: parentId ? parseInt(parentId) : null
CreateFolder(u, name, parentId) ==
    /\ Len(folders) < MaxFolders
    /\ \E ok \in BOOLEAN :
        IF ok
        THEN /\ folders' = createFolder(u, IF parentId # 0 THEN parentId ELSE NULL,
                                        name)
             /\ last' = FolderResponse("createFolder", u, "", "", 200, <<>>)
        ELSE /\ folders' = folders
             /\ last' = FolderResponse("createFolder", u, "", "", 500, <<>>)
    /\ UNCHANGED <<edgeVars, folderTree, reqs>>
    /\ UNCHANGED tables

\* the bodies of PATCH /api/folders/:folderId: no key, or one of name,
\* parentId and sortOrder
EmptyBody == [name |-> Undefined, parentId |-> Undefined, sortOrder |-> Undefined]

PatchBodies(names, sortOrders) ==
    {EmptyBody}
    \cup {[EmptyBody EXCEPT !.name = n] : n \in names}
    \cup {[EmptyBody EXCEPT !.parentId = p] : p \in {NULL} \cup Ids(folders)}
    \cup {[EmptyBody EXCEPT !.sortOrder = o] : o \in sortOrders}

\* PATCH /api/folders/:folderId: .single() throws unless one row was updated
UpdateFolder(u, f, body) ==
    /\ \E ok \in BOOLEAN :
        IF ok /\ Cardinality(updateFolderRows(f, u)) = 1
        THEN /\ folders' = updateFolder(f, u,
                    [NoUpdates EXCEPT !.name = body.name,
                                      !.parent_id = body.parentId,
                                      !.sort_order = body.sortOrder])
             /\ last' = FolderResponse("updateFolder", u, "", "", 200, <<>>)
        ELSE /\ folders' = folders
             /\ last' = FolderResponse("updateFolder", u, "", "", 500, <<>>)
    /\ UNCHANGED <<edgeVars, folderTree, reqs>>
    /\ UNCHANGED tables

\* DELETE /api/folders/:folderId
DeleteFolder(u, f) ==
    /\ \E ok \in BOOLEAN :
        IF ok /\ Cardinality(updateFolderRows(f, u)) = 1
        THEN /\ folders' = softDeleteFolder(f, u)
             /\ last' = FolderResponse("deleteFolder", u, "", "", 200, <<>>)
        ELSE /\ folders' = folders
             /\ last' = FolderResponse("deleteFolder", u, "", "", 500, <<>>)
    /\ UNCHANGED <<edgeVars, folderTree, reqs>>
    /\ UNCHANGED tables

(* src/public/library.js:253-289 *)

RECURSIVE PlaceFolders(_, _, _)
\* the second forEach of buildFolderTree, from position i on
PlaceFolders(flatFolders, i, tree) ==
    IF i > Len(flatFolders) THEN tree
    ELSE LET folder == flatFolders[i]
         IN  PlaceFolders(flatFolders, i + 1,
                IF /\ folder.parent_id # NULL
                   /\ folder.parent_id \in DOMAIN tree.children
                THEN [tree EXCEPT !.children[folder.parent_id] =
                                        Append(@, folder.id)]
                ELSE [tree EXCEPT !.roots = Append(@, folder.id)])

\* the tree whose roots are all folders, parented or not
buildFolderTree_AllRoots(flatFolders) ==
    [PlaceFolders(flatFolders, 1,
        [roots |-> <<>>,
         children |-> [id \in {flatFolders[i].id : i \in DOMAIN flatFolders}
                        |-> <<>>]])
     EXCEPT !.roots = [i \in DOMAIN flatFolders |-> flatFolders[i].id]]

\* the roots and, for every id of the map, the children array of its node
buildFolderTree(flatFolders) ==
    PlaceFolders(flatFolders, 1,
        [roots |-> <<>>,
         children |-> [id \in {flatFolders[i].id : i \in DOMAIN flatFolders}
                        |-> <<>>]])

\* loadFolders: fetch the flat list, keep it and build the sidebar's tree;
\* a failed fetch is logged and leaves both as they were
LoadFolders(u) ==
    /\ \E ok \in BOOLEAN :
        IF ok
        THEN \E rows \in getAllUserFolders(u) :
                folderTree' = [allFolders |-> rows, folders |-> buildFolderTree(rows)]
        ELSE folderTree' = folderTree
    /\ UNCHANGED <<edgeVars, folders, reqs, last>>
    /\ UNCHANGED tables

(* src/public/library.js:292-359 *)

\* a call of renderFolderItems or addOptions: the array it walks, the
\* position of its forEach and its depth
Frame(ids, depth) == [folders |-> ids, i |-> 1, depth |-> depth]

\* the walk of a tree whose nodes are rendered more than once each is cut
\* off here
WalkLimit == Cardinality(DOMAIN render.tree.children) + 1

\* renderFolders(), called by loadFolders once the tree is built: the list
\* is emptied and renderFolderItems(folders, folderList, 0) is entered
RenderFolders ==
    /\ render.stack = <<>>
    /\ render.tree # folderTree.folders
    /\ render' = [render EXCEPT !.fn = "renderFolderItems",
                                !.tree = folderTree.folders,
                                !.stack = <<Frame(folderTree.folders.roots, 0)>>,
                                !.items = <<>>]
    /\ UNCHANGED <<session, signedUrls, uploadPage, folders, folderTree, reqs, last>>
    /\ UNCHANGED tables

\* populateParentFolderDropdown(), called by loadFolders after
\* renderFolders(): the select is emptied and addOptions(folders) is entered
PopulateParentFolderDropdown ==
    /\ render.stack = <<>>
    /\ render.fn = "renderFolderItems"
    /\ render' = [render EXCEPT !.fn = "addOptions",
                                !.stack = <<Frame(render.tree.roots, 0)>>,
                                !.options = <<>>]
    /\ UNCHANGED <<session, signedUrls, uploadPage, folders, folderTree, reqs, last>>
    /\ UNCHANGED tables

\* one iteration of the innermost forEach: the call returns at the end of
\* its array; otherwise the folder is rendered and, when it has children,
\* the function calls itself for them
RenderStep(top, rest) ==
    IF top.i > Len(top.folders) THEN rest
    ELSE LET folder == top.folders[top.i]
             children == render.tree.children[folder]
         IN  rest \o <<[top EXCEPT !.i = @ + 1]>>
                  \o (IF Len(children) > 0
                      THEN <<Frame(children, top.depth + 1)>>
                      ELSE <<>>)

\* what the iteration appends to the list or to the select
Rendered(top) ==
    IF top.i > Len(top.folders) THEN <<>>
    ELSE <<[id |-> top.folders[top.i], depth |-> top.depth]>>

RenderFolderItems ==
    /\ render.stack # <<>>
    /\ render.fn = "renderFolderItems" => Len(render.items) <= WalkLimit
    /\ render.fn = "addOptions" => Len(render.options) <= WalkLimit
    /\ Len(render.stack) <= WalkLimit
    /\ LET top == render.stack[Len(render.stack)]
           rest == SubSeq(render.stack, 1, Len(render.stack) - 1)
       IN  render' = [render EXCEPT
                !.stack = RenderStep(top, rest),
                !.items = IF render.fn = "renderFolderItems"
                          THEN @ \o Rendered(top) ELSE @,
                !.options = IF render.fn = "addOptions"
                            THEN @ \o Rendered(top) ELSE @]
    /\ UNCHANGED <<session, signedUrls, uploadPage, folders, folderTree, reqs, last>>
    /\ UNCHANGED tables

\* the page's event loop is free: no rendering is under way or due
RenderIdle ==
    /\ render.stack = <<>>
    /\ render.fn # "renderFolderItems"
    /\ render.tree = folderTree.folders

----------------------------------------------------------------------------
(* the upload uploadPage, src/public/app.js:194-501 *)

MAX_FILE_SIZE == 10 * 1024 * 1024
ALLOWED_TYPES == {"image/jpeg", "image/png", "image/webp"}

\* the File objects the user can pick: images the page accepts, one of a
\* type it does not accept and one that is too large
PageFiles == 1..(NumPageFiles + 2)
WrongTypeFile == NumPageFiles + 1
LargeFile == NumPageFiles + 2
FileOf(f) ==
    [type |-> IF f = WrongTypeFile THEN "image/gif" ELSE "image/jpeg",
     size |-> IF f = LargeFile THEN MAX_FILE_SIZE + 1 ELSE 1]

\* data.image of the answer to POST /api/enhance with image f
EnhancedImage(f) == NumPageFiles + 2 + f

\* no FormData has been sent to /api/save-to-library
NoFormData == [original |-> NULL, enhanced |-> NULL]

PageFrame ==
    /\ UNCHANGED <<session, signedUrls, render, folders, folderTree, reqs, last>>
    /\ UNCHANGED tables

\* showPreview: the result state is reset and the Enhance button enabled
showPreview(p) ==
    [p EXCEPT !.enhancedImageData = NULL,
              !.isSavedToLibrary = FALSE,
              !.enhanceBtnDisabled = FALSE]

\* handleFile, of the file input's change event and of a drop
handleFile(f) ==
    /\ uploadPage' = IF FileOf(f).type \notin ALLOWED_TYPES
                  \/ FileOf(f).size > MAX_FILE_SIZE
               THEN [uploadPage EXCEPT !.errorMessage = TRUE]
               ELSE showPreview([uploadPage EXCEPT !.errorMessage = FALSE,
                                             !.selectedFile = f])
    /\ PageFrame

handleClear ==
    /\ uploadPage' = [uploadPage EXCEPT !.selectedFile = NULL,
                            !.enhancedImageData = NULL,
                            !.isSavedToLibrary = FALSE,
                            !.errorMessage = FALSE,
                            !.enhanceBtnDisabled = FALSE,
                            !.saveToLibraryBtnDisabled = FALSE]
    /\ PageFrame

handleRestoreAgain ==
    /\ uploadPage' = [uploadPage EXCEPT !.enhancedImageData = NULL,
                            !.isSavedToLibrary = FALSE,
                            !.saveToLibraryBtnDisabled = FALSE]
    /\ PageFrame

\* handleEnhance up to its await of the fetch: a click on the enabled
\* button with a file selected sends the file
handleEnhance ==
    /\ ~uploadPage.enhanceBtnDisabled
    /\ uploadPage.selectedFile # NULL
    /\ uploadPage.fetches < MaxPageFetches
    /\ uploadPage' = [uploadPage EXCEPT
            !.errorMessage = FALSE,
            !.enhanceBtnDisabled = TRUE,
            !.fetches = @ + 1,
            !.enhancing = @ \cup {[fetch |-> uploadPage.fetches + 1,
                                   image |-> uploadPage.selectedFile]}]
    /\ PageFrame

\* what the rest of handleEnhance stores when the answer has an image
StoreResult(p, request) ==
    [p EXCEPT !.enhancedImageData = EnhancedImage(request.image),
              !.isSavedToLibrary = FALSE,
              !.saveToLibraryBtnDisabled = FALSE]

\* the rest of handleEnhance, run when the answer arrives: the result is
\* stored or the error shown, and the button is enabled again
EnhanceResponse(request, ok) ==
    /\ request \in uploadPage.enhancing
    /\ uploadPage' = [(IF ok THEN StoreResult(uploadPage, request)
                 ELSE [uploadPage EXCEPT !.errorMessage = TRUE])
                EXCEPT !.enhanceBtnDisabled = FALSE,
                       !.enhancing = @ \ {request}]
    /\ PageFrame

\* handleSaveToLibrary up to its await of the fetch
handleSaveToLibrary ==
    /\ ~uploadPage.saveToLibraryBtnDisabled
    /\ uploadPage.selectedFile # NULL
    /\ uploadPage.enhancedImageData # NULL
    /\ ~uploadPage.isSavedToLibrary
    /\ uploadPage.fetches < MaxPageFetches
    /\ LET formData == [original |-> uploadPage.selectedFile,
                        enhanced |-> uploadPage.enhancedImageData]
       IN  uploadPage' = [uploadPage EXCEPT
                !.saveToLibraryBtnDisabled = TRUE,
                !.fetches = @ + 1,
                !.formData = formData,
                !.saving = @ \cup {[fetch |-> uploadPage.fetches + 1]}]
    /\ PageFrame

\* the rest of handleSaveToLibrary, run when the answer arrives
SaveResponse(request, ok) ==
    /\ request \in uploadPage.saving
    /\ uploadPage' = [uploadPage EXCEPT
            !.isSavedToLibrary = IF ok THEN TRUE ELSE @,
            !.errorMessage = IF ok THEN @ ELSE TRUE,
            !.saveToLibraryBtnDisabled = FALSE,
            !.saving = @ \ {request}]
    /\ PageFrame

-----------------------------------------------------------------------------
(* authMiddleware, src/src/supabase.js:24-46 *)

\* an Authorization header is a sequence of characters; the words that hold
\* no space are single elements of it, and <<>> is the missing header
Space == " "

\* the bearer token that the identity provider has issued to a user
TokenOf(u) == ToString(u)

\* the headers that requests carry: none, other schemes, a bare scheme,
\* issued, expired and doubled-space tokens, and a token with a word after it
AuthHeaders ==
    {<<>>, <<"Bearer">>, <<"Bearer", Space>>, <<"Bearer", Space, "expired">>}
    \cup {<<scheme, Space, TokenOf(u)>> :
                scheme \in {"Bearer", "bearer", "Basic"}, u \in Users}
    \cup {<<"Bearer", Space, Space, TokenOf(u)>> : u \in Users}
    \cup {<<"Bearer", Space, TokenOf(u), Space, "junk">> : u \in Users}

\* header.startsWith('Bearer ')
startsWithBearer(authHeader) ==
    Len(authHeader) >= 2 /\ authHeader[1] = "Bearer" /\ authHeader[2] = Space

\* string.split(' '): the pieces between the spaces, each the sequence of
\* its words (an empty piece is the empty string)
RECURSIVE split(_)
split(string) ==
    IF \A i \in DOMAIN string : string[i] # Space
    THEN <<string>>
    ELSE LET i == Min({j \in DOMAIN string : string[j] = Space})
         IN  <<SubSeq(string, 1, i - 1)>> \o split(SubSeq(string, i + 1, Len(string)))

\* supabase.auth.getUser(token): the user of a token that the provider
\* issued and that has not expired, an error for every other string
getUser(token) ==
    IF \E u \in Users : token = <<TokenOf(u)>>
    THEN [user |-> CHOOSE u \in Users : token = <<TokenOf(u)>>, error |-> FALSE]
    ELSE [user |-> NULL, error |-> TRUE]

\* authMiddleware: 401, or req.user and next(); ok is FALSE when getUser
\* throws
authMiddleware(authHeader, ok) ==
    IF authHeader = <<>> \/ ~startsWithBearer(authHeader)
    THEN [status |-> 401, user |-> NULL, next |-> FALSE]
    ELSE LET token == split(authHeader)[2]
             res == getUser(token)
         IN  IF ~ok \/ res.error \/ res.user = NULL
             THEN [status |-> 401, user |-> NULL, next |-> FALSE]
             ELSE [status |-> 0, user |-> res.user, next |-> TRUE]

\* the routes that the requests of SpecAuth ask for
ProtectedRoutes == {"POST /api/photos", "POST /api/folders", "DELETE /api/folders/:folderId"}

\* a request for a protected route arrives and authMiddleware answers 401
\* or hands it on
AuthMiddleware(route, authHeader) ==
    /\ \E ok \in BOOLEAN :
        LET res == authMiddleware(authHeader, ok)
        IN  session' = [route |-> route, header |-> authHeader,
                        status |-> res.status, user |-> res.user,
                        next |-> res.next]
    /\ UNCHANGED <<signedUrls, render, uploadPage, folders, folderTree, reqs, last>>
    /\ UNCHANGED tables

----------------------------------------------------------------------------
(* signed URLs, src/src/database.js:29-36 *)

\* a handler signs a URL for a storage object's key (or getSignedUrl
\* throws)
GetSignedUrl(so) ==
    /\ so \in Ids(storage_objects)
    /\ \E ok \in BOOLEAN, token \in UrlTokens :
        LET row == storage_objects[so]
            signedUrl == getSignedUrl(row.bucket, row.object_key, token)
        IN  signedUrls' = IF ok
                          THEN signedUrls \cup {[storageObject |-> so, url |-> signedUrl]}
                          ELSE signedUrls
    /\ UNCHANGED <<session, render, uploadPage, folders, folderTree, reqs, last>>
    /\ UNCHANGED tables

\* expiresIn seconds after it was issued a URL is no longer valid
ExpireSignedUrl(issued) ==
    /\ issued \in signedUrls
    /\ signedUrls' = signedUrls \ {issued}
    /\ UNCHANGED <<session, render, uploadPage, folders, folderTree, reqs, last>>
    /\ UNCHANGED tables

----------------------------------------------------------------------------
(* multer and the error middleware, src/src/server.js:38-51, 893-901 *)

fileSize == 10 * 1024 * 1024

allowedTypes == {"image/jpeg", "image/png", "image/webp"}

\* the parts of a multipart body: a field name, a mime type and a length
Mimetypes == {"image/jpeg", "image/gif"}
Parts(fieldnames) ==
    [fieldname : fieldnames, mimetype : Mimetypes, size : {fileSize, fileSize + 1}]

\* the bodies of the requests: the parts in the order of the stream, at most
\* one for each field name
Bodies(fieldnames) ==
    {<<>>} \cup {<<part>> : part \in Parts(fieldnames)}
    \cup {body \in Parts(fieldnames) \X Parts(fieldnames) :
                body[1].fieldname # body[2].fieldname}

NoError == [name |-> "none", message |-> "none", code |-> "none"]
InvalidFileType == "Invalid file type. Only JPEG, PNG, and WebP are allowed."

\* fileFilter: cb(null, true) or cb(new Error(...))
fileFilter(file) ==
    IF file.mimetype \in allowedTypes
    THEN NoError
    ELSE [name |-> "Error", message |-> InvalidFileType, code |-> "none"]

\* multer reads the parts in order: a part's filter runs when the part
\* starts, its length is known when it has been read, and the first error
\* ends the parsing
RECURSIVE multer(_)
multer(body) ==
    IF body = <<>> THEN NoError
    ELSE IF fileFilter(Head(body)) # NoError THEN fileFilter(Head(body))
    ELSE IF Head(body).size > fileSize
    THEN [name |-> "MulterError", message |-> "File too large",
          code |-> "LIMIT_FILE_SIZE"]
    ELSE multer(Tail(body))

\* app.use((error, req, res, next) => ...)
errorMiddleware(error) ==
    IF error.name = "MulterError" /\ error.code = "LIMIT_FILE_SIZE" THEN 400 ELSE 500

\* req.file / req.files[fieldname]?.[0]
HasFile(body, fieldname) == \E i \in DOMAIN body : body[i].fieldname = fieldname

UploadResponse(op, userId, body, status) ==
    [op |-> op, userId |-> userId, body |-> body, status |-> status]

\* POST /api/photos: upload.single('image'), then the handler
PostPhotos(u, body) ==
    IF multer(body) # NoError
    THEN /\ last' = UploadResponse("POST /api/photos", u, body,
                                   errorMiddleware(multer(body)))
         /\ UNCHANGED <<edgeVars, folders, folderTree, reqs>>
         /\ UNCHANGED tables
    ELSE IF ~HasFile(body, "image")
    THEN /\ last' = UploadResponse("POST /api/photos", u, body, 400)
         /\ UNCHANGED <<edgeVars, folders, folderTree, reqs>>
         /\ UNCHANGED tables
    ELSE UploadToStorage(u, SomeBytes)

\* the catch block of POST /api/enhance
StatelessErrorStatus(error) ==
    IF error.message = "not available in your country" THEN 422
    ELSE IF error.message = "SAFETY" THEN 422
    ELSE IF error.message = InvalidFileType THEN 400
    ELSE IF error.code = "LIMIT_FILE_SIZE" THEN 400
    ELSE 500

\* POST /api/enhance: upload.single('image'), then the handler, which calls
\* the model and stores nothing
PostEnhance(u, body) ==
    /\ \E outcome \in ModelOutcomes :
        last' = UploadResponse("POST /api/enhance", u, body,
                    IF multer(body) # NoError THEN errorMiddleware(multer(body))
                    ELSE IF ~HasFile(body, "image") THEN 400
                    ELSE IF outcome = "image" THEN 200
                    ELSE IF outcome \in {"text", "empty"} THEN 422
                    ELSE StatelessErrorStatus([name |-> "Error",
                                               message |-> outcome,
                                               code |-> "none"]))
    /\ UNCHANGED <<edgeVars, folders, folderTree, reqs>>
    /\ UNCHANGED tables

\* POST /api/save-to-library: upload.fields(original, enhanced), then the
\* handler
PostSaveToLibrary(u, body, notes, assignedDate) ==
    IF multer(body) # NoError
    THEN /\ last' = UploadResponse("POST /api/save-to-library", u, body,
                                   errorMiddleware(multer(body)))
         /\ UNCHANGED <<edgeVars, folders, folderTree, reqs>>
         /\ UNCHANGED tables
    ELSE IF ~HasFile(body, "original") \/ ~HasFile(body, "enhanced")
    THEN /\ last' = UploadResponse("POST /api/save-to-library", u, body, 400)
         /\ UNCHANGED <<edgeVars, folders, folderTree, reqs>>
         /\ UNCHANGED tables
    ELSE SaveUploadOriginal(u, notes, assignedDate)

----------------------------------------------------------------------------
(* Specifications *)

Init ==
    /\ blobs = <<>>
    /\ storage_objects = <<>>
    /\ photos = <<>>
    /\ photo_versions = <<>>
    /\ enhancement_jobs = <<>>
    /\ tags = <<>>
    /\ photo_tags = {}
    /\ comments = <<>>
    /\ folders = <<>>
    /\ folderTree = [allFolders |-> <<>>, folders |-> buildFolderTree(<<>>)]
    /\ reqs = <<>>
    /\ last = Response("none", NULL, NULL, 0, NoPhoto, {})
    /\ session = [route |-> "none", header |-> <<>>, status |-> 0,
                  user |-> NULL, next |-> FALSE]
    /\ signedUrls = {}
    /\ render = [fn |-> "none", tree |-> buildFolderTree(<<>>), stack |-> <<>>,
                 items |-> <<>>, options |-> <<>>]
    /\ uploadPage = [selectedFile |-> NULL, enhancedImageData |-> NULL,
               isSavedToLibrary |-> FALSE, enhanceBtnDisabled |-> FALSE,
               saveToLibraryBtnDisabled |-> FALSE, errorMessage |-> FALSE,
               enhancing |-> {}, saving |-> {}, fetches |-> 0,
               formData |-> NoFormData]

VersionArgs == 0..(Len(photo_versions) + 1)

\* the steps of the upload handlers in flight
UploadContinue ==
    \/ \E r \in DOMAIN reqs : UploadCreateStorageObject(r)
    \/ \E r \in DOMAIN reqs : UploadCreatePhoto(r)
    \/ \E r \in DOMAIN reqs : UploadCreatePhotoVersion(r)
    \/ \E r \in DOMAIN reqs : UploadGetSignedUrl(r)

\* the upload handler, for files whose content is drawn from files, in a
\* run of at most cap requests
UploadOf(files, cap) ==
    \/ /\ Len(reqs) < cap
       /\ \E u \in Users, fileBuffer \in files : UploadToStorage(u, fileBuffer)
    \/ UploadContinue

UploadStep(cap) == UploadOf({SomeBytes}, cap)

\* the steps of the enhance handlers in flight
EnhanceContinue ==
    \/ \E r \in DOMAIN reqs : EnhanceCreateJob(r)
    \/ \E r \in DOMAIN reqs : EnhanceStartJob(r)
    \/ \E r \in DOMAIN reqs : EnhanceGenerateContent(r)
    \/ \E r \in DOMAIN reqs : EnhanceFailNoImage(r)
    \/ \E r \in DOMAIN reqs : EnhanceUploadToStorage(r)
    \/ \E r \in DOMAIN reqs : EnhanceCreateStorageObject(r)
    \/ \E r \in DOMAIN reqs : EnhanceCreatePhotoVersion(r)
    \/ \E r \in DOMAIN reqs : EnhanceCompleteJob(r)
    \/ \E r \in DOMAIN reqs : EnhanceGetSignedUrl(r)
    \/ \E r \in DOMAIN reqs : EnhanceCatch(r)

EnhanceStep(cap) ==
    \/ /\ Len(reqs) < cap
       /\ \E u \in Users, p \in PhotoArgs, vid \in VersionArgs :
            EnhanceGetPhoto(u, p, vid)
    \/ EnhanceContinue

\* the steps of the save-to-library handlers in flight
SaveContinue ==
    \/ \E r \in DOMAIN reqs : SaveCreateStorageObject(r)
    \/ \E r \in DOMAIN reqs : SaveCreatePhoto(r)
    \/ \E r \in DOMAIN reqs : SaveUpdatePhoto(r)
    \/ \E r \in DOMAIN reqs : SaveCreateOriginalVersion(r)
    \/ \E r \in DOMAIN reqs : SaveUploadEnhanced(r)
    \/ \E r \in DOMAIN reqs : SaveCreateEnhancedStorageObject(r)
    \/ \E r \in DOMAIN reqs : SaveCreateEnhancedVersion(r)
    \/ \E r \in DOMAIN reqs : SaveCreateJob(r)
    \/ \E r \in DOMAIN reqs : SaveStartJob(r)
    \/ \E r \in DOMAIN reqs : SaveCompleteJob(r)
    \/ \E r \in DOMAIN reqs : SaveCreateComment(r)

SaveStep(cap) ==
    \/ /\ Len(reqs) < cap
       /\ \E u \in Users, notes \in BOOLEAN, assignedDate \in BOOLEAN :
            SaveUploadOriginal(u, notes, assignedDate)
    \/ SaveContinue

\* the ledger: upload and enhance requests, interleaved at their awaits
Next ==
    \/ UploadStep(MaxLedgerRequests)
    \/ EnhanceStep(MaxLedgerRequests)

Spec == Init /\ [][Next]_vars

\* overlapping enhancements: one more request than the ledger, so that two
\* enhance requests can be in flight on a photo that an upload created
NextRace ==
    \/ UploadStep(MaxRequests) /\ Started("upload")' <= MaxRaceUploads
    \/ EnhanceStep(MaxRequests)

SpecRace == Init /\ [][NextRace]_vars

\* the requests that write the folders table, for names and sort orders
\* drawn from the given sets
FolderStep(names, sortOrders) ==
    \/ \E u \in Users, name \in names, parentId \in {NULL} \cup Ids(folders) :
            CreateFolder(u, name, parentId)
    \/ \E u \in Users, f \in FolderArgs, body \in PatchBodies(names, sortOrders) :
            UpdateFolder(u, f, body)
    \/ \E u \in Users, f \in FolderArgs : DeleteFolder(u, f)

\* the folders: creation, patches, soft deletion and the listings
NextFolders ==
    \/ FolderStep(FolderNames, SortOrders)
    \/ \E u \in Users, parentId \in ParentIdParams, all \in {"", "true"} :
            ListFolders(u, parentId, all)

SpecFolders == Init /\ [][NextFolders]_vars

\* the library page's sidebar over folders that keep their name and
\* sort order
NextFolderTree ==
    \/ FolderStep({DefaultName}, {})
    \/ \E u \in Users : LoadFolders(u)

SpecFolderTree == Init /\ [][NextFolderTree]_vars

\* the user who creates the folder that photos are moved to; the photo
\* queries do not read a folder's owner
FolderOwner == CHOOSE u \in Users : TRUE

\* the library page of one user: the folders change and are loaded while
\* the page is idle, and every loaded tree is rendered
RenderNext == RenderFolders \/ PopulateParentFolderDropdown \/ RenderFolderItems

NextRender ==
    \/ /\ RenderIdle
       /\ Len(folders) < MaxRenderFolders
       /\ \E parentId \in {NULL} \cup Ids(folders) :
            CreateFolder(FolderOwner, DefaultName, parentId)
    \/ /\ RenderIdle
       /\ \E f \in Ids(folders), parentId \in {NULL} \cup Ids(folders) :
            UpdateFolder(FolderOwner, f, [EmptyBody EXCEPT !.parentId = parentId])
    \/ RenderIdle /\ \E f \in Ids(folders) : DeleteFolder(FolderOwner, f)
    \/ RenderIdle /\ LoadFolders(FolderOwner)
    \/ RenderNext

SpecRender == Init /\ [][NextRender]_vars /\ WF_vars(RenderNext)

\* the upload page: the user's events and the answers of the requests in
\* flight, in any order
NextPage ==
    \/ \E f \in PageFiles : handleFile(f)
    \/ handleClear
    \/ handleRestoreAgain
    \/ handleEnhance
    \/ \E request \in uploadPage.enhancing, ok \in BOOLEAN : EnhanceResponse(request, ok)
    \/ handleSaveToLibrary
    \/ \E request \in uploadPage.saving, ok \in BOOLEAN : SaveResponse(request, ok)

SpecPage == Init /\ [][NextPage]_vars

\* the photos that a PATCH or DELETE has written
Touched == {p \in Ids(photos) : photos[p].updated_at # NULL}

\* the photo listing: uploads one after the other, a folder, patches and
\* deletions of photos, and listings with every query
NextListing ==
    \/ /\ UploadStep(MaxListingUploads)
       /\ Cardinality(InFlight') <= MaxListingInFlight
    \/ CreateFolder(FolderOwner, DefaultName, NULL)
            /\ Len(folders') <= MaxListingFolders
    \/ \E u \in Users, p \in Ids(photos), body \in PhotoPatchBodies :
            UpdatePhoto(u, p, body) /\ Cardinality(Touched') <= MaxTouchedPhotos
    \/ \E u \in Users, p \in Ids(photos) :
            DeletePhoto(u, p) /\ Cardinality(Touched') <= MaxTouchedPhotos
    \/ \E u \in Users, f \in {"", "null", "1"}, fav \in {"", "true"},
          window \in {<<"", "">>, <<"1", "1">>} :
            ListPhotos(u, f, fav, window[1], window[2])

SpecListing == Init /\ [][NextListing]_vars

\* the blob store: uploads of files of every content
NextStorage == UploadOf(FileContents, MaxUploads)

SpecStorage == Init /\ [][NextStorage]_vars

\* requests for protected routes: each passes authMiddleware, and the
\* handler of its route runs for req.user when the middleware has called
\* next()
NextAuth ==
    \/ \E route \in ProtectedRoutes, authHeader \in AuthHeaders :
            AuthMiddleware(route, authHeader)
    \/ /\ session.next /\ session.route = "POST /api/photos"
       /\ Len(reqs) < MaxAuthUploads
       /\ UploadToStorage(session.user, SomeBytes)
    \/ UploadContinue
    \/ /\ session.next /\ session.route = "POST /api/folders"
       /\ Len(folders) < MaxAuthFolders
       /\ CreateFolder(session.user, DefaultName, NULL)
    \/ /\ session.next /\ session.route = "DELETE /api/folders/:folderId"
       /\ \E f \in FolderArgs : DeleteFolder(session.user, f)

SpecAuth == Init /\ [][NextAuth]_vars

\* the three handlers that write photos, versions and jobs, one request
\* after the other
NextJobs ==
    \/ /\ Len(reqs) < MaxJobRequests
       /\ Cardinality(InFlight) < MaxJobInFlight
       /\ \/ \E u \in Users : UploadToStorage(u, SomeBytes)
          \/ \E u \in Users, p \in PhotoArgs, vid \in VersionArgs :
                EnhanceGetPhoto(u, p, vid)
          \/ \E u \in Users : SaveUploadOriginal(u, TRUE, TRUE)
    \/ UploadContinue
    \/ EnhanceContinue
    \/ SaveContinue

SpecJobs == Init /\ [][NextJobs]_vars

\* uploads and enhancements interleaved with deletions of the photos and
\* with patches that name deleted_at
NextDelete ==
    \/ UploadStep(MaxDeleteRequests)
    \/ EnhanceStep(MaxDeleteRequests)
    \/ \E u \in Users, p \in Ids(photos) : DeletePhoto(u, p)
    \/ \E u \in Users, p \in Ids(photos) : UpdatePhoto(u, p, ClearDeletedAt)

SpecDelete == Init /\ [][NextDelete]_vars

\* uploads of files of every content, and signed URLs for the stored
\* objects
NextSignedUrls ==
    \/ UploadOf(FileContents, MaxUrlUploads)
    \/ \E so \in Ids(storage_objects) : GetSignedUrl(so)
    \/ \E issued \in signedUrls : ExpireSignedUrl(issued)

SpecSignedUrls == Init /\ [][NextSignedUrls]_vars

\* the upload endpoints with every body: one request passes the body
\* parser and runs its handler (a save with notes and a date)
NextValidation ==
    \/ /\ Len(reqs) < MaxValidRequests
       /\ \E u \in Users, body \in Bodies({"image"}) : PostPhotos(u, body)
       /\ Len(reqs') <= MaxValidRequests
    \/ UploadContinue
    \/ \E u \in Users, body \in Bodies({"image"}) : PostEnhance(u, body)
    \/ /\ \E u \in Users, body \in Bodies({"original", "enhanced"}) :
            PostSaveToLibrary(u, body, TRUE, TRUE)
       /\ Len(reqs') <= MaxValidRequests
    \/ SaveContinue

SpecValidation == Init /\ [][NextValidation]_vars

\* the creation chains: upload and save-to-library requests
NextSave ==
    \/ UploadStep(MaxSaveRequests)
    \/ SaveStep(MaxSaveRequests)

SpecSave == Init /\ [][NextSave]_vars

\* the library: uploads, lookups, listings and deletion of photos
NextLibrary ==
    \/ UploadStep(MaxLibraryRequests)
    \/ \E u \in Users, p \in PhotoArgs : GetPhoto(u, p)
    \/ \E u \in Users, f \in {"", "null"}, fav \in {"", "true"} :
            ListPhotos(u, f, fav, "", "")
    \/ \E u \in Users, p \in PhotoArgs : DeletePhoto(u, p)

SpecLibrary == Init /\ [][NextLibrary]_vars

\* tags and comments on uploaded photos
NextTags ==
    \/ UploadStep(MaxTagRequests)
    \/ \E u \in Users : CreateTag(u)
    \/ \E u \in Users, p \in PhotoArgs, t \in Ids(tags) : AddTag(u, p, t)
    \/ \E u \in Users, p \in PhotoArgs, t \in Ids(tags) : RemoveTag(u, p, t)
    \/ \E u \in Users, p \in PhotoArgs : GetComments(u, p)
    \/ \E u \in Users, p \in PhotoArgs : PostComment(u, p)

SpecTags == Init /\ [][NextTags]_vars

----------------------------------------------------------------------------
(* Properties *)

Jobs == Ids(enhancement_jobs)

Done(r, kind) == reqs[r].kind = kind /\ reqs[r].pc = "done"

Originals(photoId) ==
    {v \in VersionsOf(photoId) : photo_versions[v].is_original}

LegalJobStep(old, new) ==
    \/ new = old
    \/ old.status = "queued" /\ new.status = "running"
    \/ old.status = "running" /\ new.status \in {"succeeded", "failed"}

\* C1: the status of a job changes only queued -> running,
\* running -> succeeded or running -> failed, and a job row whose status is
\* succeeded or failed is never written again.
C1_JobTransitions ==
    [][\A j \in Jobs : LegalJobStep(enhancement_jobs[j], enhancement_jobs'[j])]_vars

\* C2: a succeeded job has an outputVersionId; a failed job has an
\* errorMessage and no outputVersionId.
C2_TerminalJobFields ==
    \A j \in Jobs :
        /\ enhancement_jobs[j].status = "succeeded"
              => enhancement_jobs[j].output_version_id # NULL
        /\ enhancement_jobs[j].status = "failed"
              => /\ enhancement_jobs[j].error_message # NoMessage
                 /\ enhancement_jobs[j].output_version_id = NULL

\* C3: every photo left by a finished upload or save-to-library request,
\* whichever step of the request failed, has exactly one version with
\* isOriginal = true.
C3_ExactlyOneOriginal ==
    \A r \in DOMAIN reqs :
        (reqs[r].pc = "done" /\ reqs[r].kind \in {"upload", "save"}
            /\ reqs[r].photoId # NULL)
        => Cardinality(Originals(reqs[r].photoId)) = 1

\* the photo named by the last response does not exist or belongs to a user
\* other than the caller
NotCallersPhoto ==
    \/ last.photoId \notin Ids(photos)
    \/ photos[last.photoId].user_id # last.userId

\* C4: GET /api/photos/:id for a photo of another user, or for no photo, is
\* answered 404.
C4_ForeignPhotoIs404 ==
    (last.op = "GET photo" /\ NotCallersPhoto) => last.status = 404

\* C5: an operation issued by a user neither returns nor creates, changes or
\* deletes a row that belongs to, or is attached to a photo or tag of,
\* another user.
C5_OwnerIsolation ==
    [][LET issuer == last'.userId
       IN  /\ \A pt \in (photo_tags' \ photo_tags) \cup (photo_tags \ photo_tags') :
                 /\ photos[pt[1]].user_id = issuer
                 /\ tags[pt[2]].user_id = issuer
           /\ \A c \in Ids(comments') \ Ids(comments) :
                 photos[comments'[c].photo_id].user_id = comments'[c].user_id
           /\ last'.op = "GET comments"
                 => \A c \in last'.rows :
                       /\ comments[c].user_id = issuer
                       /\ photos[comments[c].photo_id].user_id = issuer
           /\ \A q \in Ids(photos) :
                 photos'[q] # photos[q] => photos[q].user_id = issuer
      ]_vars

Deleted == {q \in Ids(photos) : photos[q].deleted_at # NULL}

Filters == {NoFilter, NULL} \X BOOLEAN

FreshEnhance(r) ==
    /\ Done(r, "enhance")
    /\ reqs[r].versionId = NULL
    /\ reqs[r].model = "image"
    /\ \A v \in reqs[r].versions : photo_versions[v].is_original

\* what C7 expects of such a request
EnhanceResult(r) ==
    /\ reqs[r].version \in Ids(photo_versions)
    /\ LET v == photo_versions[reqs[r].version]
       IN  /\ ~v.is_original
           /\ v.photo_id = reqs[r].photoId
           /\ v.parent_version_id \in Originals(reqs[r].photoId)
           /\ v.label = "Enhanced v1"
    /\ reqs[r].job \in Jobs
    /\ enhancement_jobs[reqs[r].job].status = "succeeded"
    /\ enhancement_jobs[reqs[r].job].output_version_id = reqs[r].version
    /\ (\A o \in DOMAIN reqs :
            (o # r /\ reqs[o].kind = "enhance" /\ reqs[o].photoId = reqs[r].photoId)
            => reqs[o].version = NULL)
       => VersionsOf(reqs[r].photoId) = reqs[r].versions \cup {reqs[r].version}

NoImage == {"text", "empty", "SAFETY", "not available in your country"}

JobStatus(r) == enhancement_jobs[reqs[r].job].status

FirstFailWriteOk(r) ==
    IF reqs[r].model \in {"text", "empty"}
    THEN reqs[r].error = "none"
    ELSE JobStatus(r) = "failed"

C9_FailedJobHasNoVersion ==
    \A r \in DOMAIN reqs :
        (reqs[r].kind = "enhance" /\ reqs[r].version # NULL)
        => JobStatus(r) # "failed"

\* C10: a request that created a job and answers with an error has attempted
\* failEnhancementJob before responding.
C10_FailAttempted ==
    \A r \in DOMAIN reqs :
        (reqs[r].pc = "done" /\ reqs[r].job # NULL /\ reqs[r].status >= 400)
        => reqs[r].failAttempted

----------------------------------------------------------------------------
(* Overlapping enhancements *)

Enhanced(photoId) ==
    {v \in VersionsOf(photoId) : ~photo_versions[v].is_original}

\* the non-original versions of the same photo created before version v
PriorEnhanced(v) ==
    {w \in Enhanced(photo_versions[v].photo_id) : w < v}

\* C11: every enhanced version of a photo is labelled "Enhanced vN" with
\* N = the number of non-original versions of that photo created before it
\* plus 1, so within a photo the labels increase in creation order and no
\* two enhanced versions carry the same label, whatever the overlap of the
\* enhance requests.
C11_LabelsIncrease ==
    \A p \in Ids(photos) : \A v \in Enhanced(p) :
        photo_versions[v].label =
            "Enhanced v" \o ToString(Cardinality(PriorEnhanced(v)) + 1)

EnhanceReqs == {r \in DOMAIN reqs : reqs[r].kind = "enhance"}

\* the rows that existed before a step are the same rows after it
RowsKept(table) ==
    /\ Len(table') >= Len(table)
    /\ \A i \in Ids(table) : table'[i] = table[i]

\* a job row is written only by a step of the request that created it
OwnJobWrites ==
    \A j \in Jobs :
        enhancement_jobs'[j] # enhancement_jobs[j]
        => \E r \in EnhanceReqs : reqs[r].job = j /\ reqs'[r].pc # reqs[r].pc

IndependentRows ==
    /\ \A r \in EnhanceReqs :
        (reqs[r].job # NULL /\ JobStatus(r) = "succeeded")
        => /\ reqs[r].version # NULL
           /\ enhancement_jobs[reqs[r].job].output_version_id = reqs[r].version
    /\ \A r1, r2 \in EnhanceReqs :
        (r1 # r2 /\ reqs[r1].photoId = reqs[r2].photoId)
        => /\ reqs[r1].job # NULL => reqs[r1].job # reqs[r2].job
           /\ reqs[r1].storageObject # NULL
                => reqs[r1].storageObject # reqs[r2].storageObject
           /\ (reqs[r1].version # NULL /\ reqs[r2].version # NULL)
                => /\ reqs[r1].version # reqs[r2].version
                   /\ photo_versions[reqs[r1].version].storage_object_id
                        # photo_versions[reqs[r2].version].storage_object_id

\* C12: two enhance requests for the same photo, however interleaved, each
\* create their own job and (on success) their own storage object and
\* version; no step removes or rewrites a blob, storage object or version,
\* a job row is written only by the request that created it, and a
\* succeeded job's output_version_id is the version its own request created.
C12_IndependentEnhancements ==
    /\ []IndependentRows
    /\ [][/\ RowsKept(blobs) /\ RowsKept(storage_objects)
          /\ RowsKept(photo_versions) /\ Len(enhancement_jobs') >= Len(enhancement_jobs)
          /\ OwnJobWrites]_vars

\* two overlapping enhancements of one photo have both answered 200
C12_Witness ==
    \E r1, r2 \in EnhanceReqs :
        /\ r1 < r2
        /\ reqs[r1].photoId = reqs[r2].photoId
        /\ reqs[r1].status = 200 /\ reqs[r2].status = 200
        /\ reqs[r2].versions = reqs[r1].versions

----------------------------------------------------------------------------
(* Save to library *)

\* C13: a save-to-library request answered with success has created one
\* photo of the caller, exactly two versions of it (one original, one
\* non-original whose parent is the original) and exactly one job of it,
\* succeeded, from the original version to the enhanced version.
C13_SaveCreatesChain ==
    \A r \in DOMAIN reqs :
        (Done(r, "save") /\ reqs[r].status = 200)
        => LET p == reqs[r].photoId
               o == reqs[r].originalVersion
               e == reqs[r].version
           IN  /\ p \in Ids(photos)
               /\ photos[p].user_id = reqs[r].userId
               /\ \A q \in DOMAIN reqs : q # r => reqs[q].photoId # p
               /\ VersionsOf(p) = {o, e} /\ o # e
               /\ photo_versions[o].is_original
               /\ photo_versions[o].parent_version_id = NULL
               /\ ~photo_versions[e].is_original
               /\ photo_versions[e].parent_version_id = o
               /\ JobsOf(p) = {reqs[r].job}
               /\ enhancement_jobs[reqs[r].job].status = "succeeded"
               /\ enhancement_jobs[reqs[r].job].input_version_id = o
               /\ enhancement_jobs[reqs[r].job].output_version_id = e

\* a save-to-library request has answered with success next to an upload
C13_Witness ==
    \E r \in DOMAIN reqs :
        /\ Done(r, "save") /\ reqs[r].status = 200
        /\ Len(photos) > 1

----------------------------------------------------------------------------
(* Failed blob writes *)

\* this step is request r's uploadToStorage throwing: either the arriving
\* request's first write, or the write a suspended handler was about to do
BlobWriteFails(r) ==
    IF r \in DOMAIN reqs
    THEN /\ reqs[r].pc \in {"uploadToStorage", "uploadEnhanced"}
         /\ reqs'[r].pc \in {"catch", "done"}
         /\ blobs' = blobs
    ELSE /\ reqs'[r].kind \in {"upload", "save"}
         /\ reqs'[r].pc = "done"

\* no photo, version or job that request r created exists after the step
\* (rows are never removed, so a row the request holds an id of is there)
NothingPersisted(r) ==
    /\ reqs'[r].kind # "enhance" => reqs'[r].photoId = NULL
    /\ reqs'[r].originalVersion = NULL
    /\ reqs'[r].version = NULL
    /\ reqs'[r].job = NULL
    /\ reqs'[r].pc = "done" /\ reqs'[r].status >= 400

\* C14: when a blob-store write fails during upload, enhance or
\* save-to-library the request is answered with an error and nothing it
\* created (storage object, photo, version, job) is left in the tables.
C14_NoPartialState ==
    [][\A r \in DOMAIN reqs' : BlobWriteFails(r) => NothingPersisted(r)]_vars

----------------------------------------------------------------------------
(* Storage objects *)

\* the positions of a sequence hold pairwise different values
Distinct(seq) ==
    \A i, j \in DOMAIN seq : i # j => seq[i] # seq[j]

BlobKeys == [i \in Ids(blobs) |-> blobs[i].key]

ObjectKeys == [i \in Ids(storage_objects) |-> storage_objects[i].object_key]

----------------------------------------------------------------------------
(* Version lineage *)

RECURSIVE ReachesOriginal(_, _)
\* following parent_version_id from version v arrives at an original
\* version within n steps
ReachesOriginal(v, n) ==
    IF v \notin Ids(photo_versions) THEN FALSE
    ELSE IF photo_versions[v].is_original THEN TRUE
    ELSE IF n = 0 THEN FALSE
    ELSE ReachesOriginal(photo_versions[v].parent_version_id, n - 1)

\* C16: the versions form a forest rooted at originals: an original has no
\* parent, the parent of a non-original is an existing version created
\* earlier, of the same photo and owner, and following parents from any
\* version reaches an original without visiting a version twice.
C16_VersionForest ==
    \A v \in Ids(photo_versions) :
        LET row == photo_versions[v]
            parent == row.parent_version_id
        IN  /\ row.is_original => parent = NULL
            /\ ~row.is_original =>
                /\ parent \in Ids(photo_versions)
                /\ parent < v
                /\ photo_versions[parent].photo_id = row.photo_id
                /\ photo_versions[parent].user_id = row.user_id
            /\ ReachesOriginal(v, Len(photo_versions) - 1)

\* an enhanced version was enhanced again: a lineage of two steps
C16_Witness ==
    \E v \in Ids(photo_versions) :
        /\ ~photo_versions[v].is_original
        /\ photo_versions[v].parent_version_id \in Ids(photo_versions)
        /\ ~photo_versions[photo_versions[v].parent_version_id].is_original

----------------------------------------------------------------------------
(* Folders *)

RECURSIVE AncestorsOf(_, _)
\* the folders reached from folder f by following parent_id up to n times
AncestorsOf(f, n) ==
    IF n = 0 \/ f \notin Ids(folders) THEN {}
    ELSE LET parent == folders[f].parent_id
         IN  IF parent = NULL THEN {}
             ELSE {parent} \cup AncestorsOf(parent, n - 1)

\* C17: creating a folder under a parent and patching a folder's parentId
\* reject every edge that would close a cycle: no folder is its own
\* ancestor under parent_id.
C17_NoFolderCycle ==
    \A f \in Ids(folders) : f \notin AncestorsOf(f, Len(folders))

Range(seq) == {seq[i] : i \in DOMAIN seq}

\* the number of positions of seq that hold x
Count(seq, x) == Cardinality({i \in DOMAIN seq : seq[i] = x})

RECURSIVE Sum(_, _)
Sum(f, S) ==
    IF S = {} THEN 0
    ELSE LET x == CHOOSE y \in S : TRUE IN f[x] + Sum(f, S \ {x})

RECURSIVE Descendants(_, _, _)
\* the nodes reached from the nodes of S through children arrays in up to
\* n steps
Descendants(tree, S, n) ==
    IF n = 0 THEN S
    ELSE Descendants(tree,
            S \cup UNION {Range(tree.children[x]) : x \in S \cap DOMAIN tree.children},
            n - 1)

\* the position of folder id in the flat list
PositionOf(flatFolders, id) ==
    CHOOSE i \in DOMAIN flatFolders : flatFolders[i].id = id

\* the members of seq come in the order of the flat list
KeepsOrder(flatFolders, seq) ==
    \A i, j \in DOMAIN seq :
        i < j => PositionOf(flatFolders, seq[i]) < PositionOf(flatFolders, seq[j])

\* C18: in the tree that buildFolderTree makes of the loaded flat list every
\* folder appears exactly once, under its parent when parent_id is a folder
\* of the list and as a root otherwise, every folder is a root or a
\* descendant of a root, and siblings are in the order of the list.
C18_TreeCoversFolders ==
    LET flat == folderTree.allFolders
        tree == folderTree.folders
        ids == {flat[i].id : i \in DOMAIN flat}
    IN  /\ DOMAIN tree.children = ids
        /\ \A i \in DOMAIN flat :
            LET id == flat[i].id
                parent == flat[i].parent_id
            IN  /\ Count(tree.roots, id)
                    + Sum([x \in ids |-> Count(tree.children[x], id)], ids) = 1
                /\ IF parent # NULL /\ parent \in ids
                   THEN id \in Range(tree.children[parent])
                   ELSE id \in Range(tree.roots)
                /\ id \in Descendants(tree, Range(tree.roots), Len(flat))
        /\ KeepsOrder(flat, tree.roots)
        /\ \A x \in ids : KeepsOrder(flat, tree.children[x])

\* a GET /api/folders for the root level has just been answered
RootListing ==
    /\ last' # last
    /\ last'.op = "listFolders"
    /\ last'.status = 200
    /\ last'.parentId \in {"", "null"}

\* the answer holds exactly the caller's live folders without a parent,
\* each once, sorted by (sort_order, name)
RootFoldersListed ==
    LET rows == last'.rows
    IN  /\ \A i, j \in DOMAIN rows : i < j => FolderBefore(rows[i], rows[j])
        /\ \A i, j \in DOMAIN rows : i # j => rows[i].id # rows[j].id
        /\ {rows[i] : i \in DOMAIN rows}
            = {folders[f] : f \in {g \in LiveFolders(last'.userId) :
                                        folders[g].parent_id = NULL}}

\* C19 as stated: a folder listing with parentId=null or with no parentId
\* returns exactly the caller's non-deleted folders whose parent_id is null,
\* ordered by (sort_order, name).
C19_RootListing ==
    [][RootListing => RootFoldersListed]_vars

\* C19: a folder listing with parentId=null or with no parentId, and
\* without all=true, returns exactly the caller's non-deleted folders whose
\* parent_id is null, ordered by (sort_order, name).
C19_RootListingNotAll ==
    [][(RootListing /\ last'.all # "true") => RootFoldersListed]_vars

\* a root listing was answered while the caller also has a live subfolder
C19_Witness ==
    /\ last.op = "listFolders" /\ last.status = 200
    /\ last.parentId \in {"", "null"} /\ last.all # "true"
    /\ Len(last.rows) = 1
    /\ \E f \in LiveFolders(last.userId) :
        folders[f].parent_id = last.rows[1].id

----------------------------------------------------------------------------
(* Photo listing *)

\* a GET /api/photos has just been answered with a result
PhotosListed ==
    /\ last' # last
    /\ last'.op = "GET photos"
    /\ last'.status = 200

\* the caller's live photos that the query's filters select
Selected(userId, query) ==
    {p \in Ids(photos) :
        /\ photos[p].user_id = userId
        /\ photos[p].deleted_at = NULL
        /\ query.folderId = "null" => photos[p].folder_id = NULL
        /\ query.folderId \notin {"", "null"}
            => /\ photos[p].folder_id # NULL
               /\ ToString(photos[p].folder_id) = query.folderId
        /\ query.favorites = "true" => photos[p].favorite}

\* the number of photos of S created after photo p
NewerIn(S, p) ==
    Cardinality({q \in S : photos[q].created_at > photos[p].created_at})

\* C20: GET /api/photos returns exactly the caller's photos with deleted_at
\* null that match the filters (folderId=null: no folder; no folderId: any
\* folder; a folderId: that folder; favorites=true: favorites only), newest
\* first, restricted to the at most limit rows from position offset on,
\* with total the number of all matching photos.
C20_PhotoListing ==
    [][PhotosListed =>
        LET query == last'.query
            page == last'.photos
            matching == Selected(last'.userId, query)
            limit == IF query.limit = "" THEN 50
                     ELSE CHOOSE n \in 0..9 : ToString(n) = query.limit
            offset == IF query.offset = "" THEN 0
                      ELSE CHOOSE n \in 0..9 : ToString(n) = query.offset
        IN  /\ last'.total = Cardinality(matching)
            /\ Len(page) <= limit
            /\ \A i \in DOMAIN page :
                /\ page[i] \in matching
                /\ NewerIn(matching, page[i]) = offset + i - 1
            /\ \A p \in matching :
                (/\ NewerIn(matching, p) >= offset
                 /\ NewerIn(matching, p) < offset + limit)
                => \E i \in DOMAIN page : page[i] = p]_vars

\* a listing of two matching photos was cut to the second row
C20_Witness ==
    /\ last.op = "GET photos" /\ last.status = 200
    /\ last.query.limit = "1" /\ last.query.offset = "1"
    /\ last.total = 2
    /\ Len(last.photos) = 1
    /\ \E p \in Ids(photos) : p > last.photos[1] /\ photos[p].user_id = last.userId

----------------------------------------------------------------------------
(* C21 *)

\* the header is Bearer, one space and a token that the provider issued to
\* a user and that has not expired
Authorized(authHeader) ==
    \E u \in Users : authHeader = <<"Bearer", Space, TokenOf(u)>>

\* C21: a request to a protected endpoint whose Authorization header is
\* missing, is not of the form Bearer <token>, or carries an invalid or
\* expired token is answered 401, its handler does not run (no request
\* record and no folder row is written for it), and the step of the
\* middleware changes no table.
C21_Unauthorized401 ==
    [][(session'.route # "none" /\ ~Authorized(session'.header))
            => /\ session'.status = 401 /\ ~session'.next
               /\ Len(reqs') = Len(reqs) /\ folders' = folders
               /\ (session' # session => tables' = tables)]_vars

----------------------------------------------------------------------------
(* C22 *)

UploadRoutes == {"POST /api/photos", "POST /api/enhance", "POST /api/save-to-library"}

\* the fields that a route requires
RequiredFields(op) ==
    IF op = "POST /api/save-to-library" THEN {"original", "enhanced"} ELSE {"image"}

\* a required file is missing, or a file's mime type is not JPEG, PNG or
\* WebP, or a file is larger than 10MB
ValidationFailure(op, body) ==
    \/ \E fieldname \in RequiredFields(op) : ~HasFile(body, fieldname)
    \/ \E i \in DOMAIN body : body[i].mimetype \notin allowedTypes
    \/ \E i \in DOMAIN body : body[i].size > fileSize

\* C22: a validation failure on an upload endpoint (missing file, a mime
\* type other than JPEG/PNG/WebP, a file larger than 10MB) is answered 400
\* and persists nothing.
C22_ValidationIs400 ==
    [][(/\ last' # last
        /\ last'.op \in UploadRoutes
        /\ ValidationFailure(last'.op, last'.body))
            => last'.status = 400 /\ tables' = tables /\ reqs' = reqs]_vars

----------------------------------------------------------------------------
(* C23 *)

----------------------------------------------------------------------------
(* C24 *)

\* the input version of the job that request r created
InputOf(r) == enhancement_jobs[reqs[r].job].input_version_id

\* C24: every job's input_version_id is a version of the job's own photo
\* and owner; the job of an enhance request has the version named by
\* versionId as its input when one is given and the photo's original
\* version otherwise, so a versionId that is not a version of the photo
\* never becomes a job's input.
C24_JobInputVersion ==
    /\ \A j \in Ids(enhancement_jobs) :
        LET job == enhancement_jobs[j]
        IN  /\ job.input_version_id \in Ids(photo_versions)
            /\ photo_versions[job.input_version_id].photo_id = job.photo_id
            /\ photo_versions[job.input_version_id].user_id = job.user_id
    /\ \A r \in DOMAIN reqs :
        (reqs[r].kind = "enhance" /\ reqs[r].job # NULL) =>
            /\ enhancement_jobs[reqs[r].job].photo_id = reqs[r].photoId
            /\ IF reqs[r].versionId # NULL
               THEN InputOf(r) = reqs[r].versionId
               ELSE photo_versions[InputOf(r)].is_original

\* an enhance request that named a version has its job, while a version of
\* another photo exists
C24_Witness ==
    \E r \in DOMAIN reqs, v \in Ids(photo_versions) :
        /\ reqs[r].kind = "enhance" /\ reqs[r].job # NULL
        /\ reqs[r].versionId # NULL
        /\ photo_versions[v].photo_id # reqs[r].photoId

----------------------------------------------------------------------------
(* C25 *)

\* C25: every job created by an enhance or save-to-library request is
\* succeeded or failed by the time the request has sent its response: no
\* finished request leaves its job queued or running.
C25_JobTerminalAtResponse ==
    \A r \in DOMAIN reqs :
        (reqs[r].pc = "done" /\ reqs[r].job # NULL)
            => JobStatus(r) \in {"succeeded", "failed"}

----------------------------------------------------------------------------
(* C26 *)

\* the step is the DELETE of photo id by the user userId
Deletes(userId, id) ==
    /\ last' # last
    /\ last'.op = "DELETE photo" /\ last'.userId = userId /\ last'.photoId = id

\* the row but for deleted_at and updated_at
Kept(row) == [row EXCEPT !.deleted_at = NULL, !.updated_at = NULL]

\* C26: DELETE /api/photos/:id changes only deleted_at and updated_at of
\* the caller's photo row: the row stays, every other photo and all
\* versions, jobs, storage objects and blobs are unchanged; and no
\* operation clears a deleted_at that is set.
C26_DeleteFrame ==
    [][/\ \A u \in Users, id \in PhotoArgs :
            Deletes(u, id) =>
                /\ <<blobs, storage_objects, photo_versions, enhancement_jobs,
                      tags, photo_tags, comments, folders>>'
                     = <<blobs, storage_objects, photo_versions, enhancement_jobs,
                         tags, photo_tags, comments, folders>>
                /\ Ids(photos') = Ids(photos)
                /\ \A p \in Ids(photos) :
                    /\ Kept(photos'[p]) = Kept(photos[p])
                    /\ (photos[p].id # id \/ photos[p].user_id # u)
                            => photos'[p] = photos[p]
                    /\ (photos[p].id = id /\ photos[p].user_id = u /\ last'.status = 200)
                            => photos'[p].deleted_at # NULL
       /\ \A p \in Ids(photos) :
            photos[p].deleted_at # NULL
                => p \in Ids(photos') /\ photos'[p].deleted_at # NULL]_vars

\* a photo with a version and a job has been deleted by its owner and
\* patched afterwards, beside a photo that is not deleted
C26_Witness ==
    /\ last.op = "PATCH photo" /\ last.status = 200
    /\ last.photoId \in Ids(photos)
    /\ photos[last.photoId].deleted_at # NULL
    /\ VersionsOf(last.photoId) # {}

----------------------------------------------------------------------------
(* C27 *)

\* the photo is missing, soft-deleted or owned by another user, or the
\* version id that the request names is not a version of the photo
NotEnhanceable(req) ==
    \/ req.photoId \notin Ids(photos)
    \/ photos[req.photoId].user_id # req.userId
    \/ photos[req.photoId].deleted_at # NULL
    \/ /\ req.versionId # NULL
       /\ \/ req.versionId \notin Ids(photo_versions)
          \/ photo_versions[req.versionId].photo_id # req.photoId

\* C27: an enhance request that is rejected before job creation (photo
\* missing, soft-deleted or owned by another user, or versionId not a
\* version of that photo) is answered with an error at once and changes no
\* persisted state: no job, version, storage object or blob is created and
\* the model is not called, then or later.
C27_RejectedEnhanceWritesNothing ==
    [][/\ \A r \in DOMAIN reqs' \ DOMAIN reqs :
            (reqs'[r].kind = "enhance" /\ NotEnhanceable(reqs'[r])) =>
                /\ reqs'[r].pc = "done" /\ reqs'[r].status >= 400
                /\ reqs'[r].job = NULL /\ reqs'[r].version = NULL
                /\ reqs'[r].model = "none"
                /\ tables' = tables
       /\ \A r \in DOMAIN reqs :
            reqs[r].pc = "done" => reqs'[r] = reqs[r]]_vars

\* an enhance request of the owner for an uploaded photo that the owner has
\* deleted has been rejected, with no other request in flight before it
C27_Witness ==
    \E r \in DOMAIN reqs :
        /\ Done(r, "enhance") /\ reqs[r].job = NULL
        /\ reqs[r].photoId \in Ids(photos)
        /\ photos[reqs[r].photoId].user_id = reqs[r].userId
        /\ photos[reqs[r].photoId].deleted_at # NULL
        /\ VersionsOf(reqs[r].photoId) # {}
        /\ last.op = "DELETE photo" /\ last.status = 200
        /\ \A q \in DOMAIN reqs : q < r => reqs[q].pc = "done"

----------------------------------------------------------------------------
(* C28 *)

\* the rows that the step appends to a table
NewRows(table) == Ids(table') \ Ids(table)

\* C28: no version and no job is created for a photo whose deleted_at is
\* already set, also when an enhance request interleaves with the DELETE
\* of its photo.
C28_NoVersionAfterDelete ==
    [][/\ \A v \in NewRows(photo_versions) :
            photos[photo_versions'[v].photo_id].deleted_at = NULL
       /\ \A j \in NewRows(enhancement_jobs) :
            photos[enhancement_jobs'[j].photo_id].deleted_at = NULL]_vars

----------------------------------------------------------------------------
(* C29 *)

\* C29: the recursive rendering of the folders (renderFolderItems and
\* addOptions) over the output of buildFolderTree terminates for every
\* flat list, also when the parent_id pointers hold a self-parent or a
\* longer cycle: every rendering that has started ends, and the list and,
\* once addOptions has been entered, the select hold no more entries than
\* the rendered tree has folders.
C29_RenderingTerminates ==
    /\ [](/\ Len(render.items) <= Cardinality(DOMAIN render.tree.children)
          /\ render.fn = "addOptions" =>
                Len(render.options) <= Cardinality(DOMAIN render.tree.children)
          /\ Len(render.stack) <= Cardinality(DOMAIN render.tree.children) + 1)
    /\ (~RenderIdle ~> RenderIdle)

\* the tree of a list with a folder that is its own ancestor and a folder
\* that is not has been rendered to the end
C29_Witness ==
    /\ RenderIdle /\ render.fn = "addOptions"
    /\ render.items # <<>> /\ render.options # <<>>
    /\ \E i \in DOMAIN folderTree.allFolders :
        LET id == folderTree.allFolders[i].id
        IN  id \notin Descendants(folderTree.folders, Range(folderTree.folders.roots),
                                  Len(folderTree.allFolders))

-----------------------------------------------------------------------------
(* C30 *)

\* C30: on the upload page, whenever enhancedImageData is non-null it is
\* the result of enhancing the currently selected file, also when an
\* answer arrives after the file was replaced or cleared, and the FormData
\* that handleSaveToLibrary sends holds an enhanced image of its original.
C30_EnhancedIsOfSelectedFile ==
    /\ uploadPage.enhancedImageData # NULL =>
        /\ uploadPage.selectedFile # NULL
        /\ uploadPage.enhancedImageData = EnhancedImage(uploadPage.selectedFile)
    /\ uploadPage.formData # NoFormData =>
        uploadPage.formData.enhanced = EnhancedImage(uploadPage.formData.original)

====
